---- MODULE Spec2Model ----
(***************************************************************************)
(* A model of the distributed-training-system repository:                  *)
(*   demo/worker.py       the worker and its checkpoint store               *)
(*   demo/coordinator.py  the per-job coordinator and its restart policy    *)
(*   api/job_manager.py   the JobManager, its job table and index.json      *)
(***************************************************************************)
EXTENDS Integers, Sequences, FiniteSets, TLC

(* ------------------------------ bounds --------------------------------- *)
MaxWorld == 2
MaxShards == 2
MaxLines == 3
MaxTotalLines == 3
MaxEvery == 2
MaxRestarts == 1

Ranks == 0 .. (MaxWorld - 1)

VARIABLES
    env,            \* the job's environment: WORLD_SIZE, CHECKPOINT_EVERY, MAX_RESTARTS_PER_WORKER
    dataset,        \* DATASET_DIR: shard index -> number of lines of shard_<index>.txt
    wlive,          \* per rank: "none" | "alive" | "exited" (the rank's newest OS process)
    wcode,          \* per rank: exit code of the newest process once it has exited
    wpc,            \* per rank: position of the worker process in worker.py
    wstate,         \* per rank: the in-memory `state` dict of main()
    wmodel,         \* per rank: model.loss_history, one entry per train_step
    wsi,            \* per rank: loop variable `si` of main()
    wfpos,          \* per rank: index of the next line the shard iterator yields
    tmp,            \* per rank: the temporary checkpoint directory being built
    ckpt,           \* per rank: step N -> contents of JOB_DIR/step_N
    latest,         \* per rank: the LATEST file
    wresume,        \* per rank: the state load_checkpoint returned to this process
    wemit,          \* per rank: the step lines this process has printed
    wcommits,       \* per rank: history of renames and LATEST writes
    cpc,            \* coordinator: position in coordinator.py main()
    cidx,           \* coordinator: rank the spawn loop / monitor loop is at
    slots,          \* coordinator: the `workers` dict (tracked, restarts)
    unrecorded,     \* coordinator: rank whose new_proc is not yet stored in w.proc
    shutting_down,  \* coordinator: the shutdown handler's flag
    ccode,          \* coordinator: exit code once cpc = "exited"
    starts,         \* per rank: how many times start_worker(rank) has been called
    clog,           \* the job's log file: the lines the coordinator has printed that
                    \* the model reads (worker output is in wemit)
    roundtrip,      \* save_checkpoint(s); load_checkpoint(): s, the directory before, the result
    jobs,           \* JobManager.jobs: job_id -> Job (proc handle, pid)
    index,          \* index.json: job_id -> entry
    procs,          \* the OS process table: pid -> process
    logs,           \* LOG_DIR/<job_id>.log: whether it exists and the sentinels it contains
    ret,            \* the last JobManager call and what it returned
    seen_completed, \* per job_id: a status call has returned COMPLETED since create
    now,            \* time.time(), in ticks
    ckdirs,         \* the job_ids whose checkpoint directory CHECKPOINT_DIR/<job_id> exists
    stop_sent,      \* the job_ids for which stop_job has returned STOP_SENT since create
    purging,        \* the purge call in progress: its arguments, to_delete, deleted_count
    logbytes,       \* per job_id: the bytes of LOG_DIR/<job_id>.log
    orphans,        \* the job_ids whose workers outlive their killed coordinator
    stream,         \* the log stream of main.py stream_logs: position, offset, chunks
    threads,        \* per request thread: the operation it runs and where it is in it
    listing,        \* assigned_shards over a directory of shard files: the files, the lists
    wprocs          \* the live worker processes: job_id, rank, pid of the parent (0: none)

jvars == <<env, dataset, wlive, wcode, wpc, wstate, wmodel, wsi, wfpos, tmp, ckpt,
           latest, wresume, wemit, wcommits, cpc, cidx, slots, unrecorded,
           shutting_down, ccode, starts, clog>>

wvars == <<wlive, wcode, wpc, wstate, wmodel, wsi, wfpos, tmp, ckpt, latest,
           wresume, wemit, wcommits>>

cvars == <<cpc, cidx, slots, unrecorded, shutting_down, ccode, starts>>

\* the request layer's other state: the clock, the checkpoint roots, calls in progress
svars == <<logbytes, orphans, stream>>
avars == <<now, ckdirs, stop_sent, purging, svars, threads, listing, wprocs>>

mvars == <<jobs, index, procs, logs, ret, seen_completed, avars>>

\* what the job's processes never touch
xvars == <<roundtrip, mvars>>

vars == <<jvars, roundtrip, mvars>>

(* ------------------------- configuration ------------------------------- *)
WORLD_SIZE == env.WORLD_SIZE
CHECKPOINT_EVERY == env.CHECKPOINT_EVERY
MAX_RESTARTS_PER_WORKER == env.MAX_RESTARTS_PER_WORKER

RECURSIVE SumLines(_, _)
SumLines(d, S) ==
    IF S = {} THEN 0
    ELSE LET s == CHOOSE x \in S : TRUE IN d[s] + SumLines(d, S \ {s})

Datasets ==
    { d \in UNION { [S -> 0 .. MaxLines] : S \in SUBSET (0 .. (MaxShards - 1)) } :
        SumLines(d, DOMAIN d) <= MaxTotalLines }

Envs == [WORLD_SIZE : 1 .. MaxWorld,
         CHECKPOINT_EVERY : 1 .. MaxEvery,
         MAX_RESTARTS_PER_WORKER : 0 .. MaxRestarts]

(* ------------------------- worker.py: data ------------------------------ *)
NoModel == [is_none |-> TRUE, loss_history |-> <<>>]

InitialState(rank) ==
    [step |-> 0, rank |-> rank, world_size |-> WORLD_SIZE,
     shard_idx |-> 0, line_idx |-> 0, model_state |-> NoModel]

StateFields == {"step", "rank", "world_size", "shard_idx", "line_idx", "model_state"}

\* (variant) line_idx is not taken from the file
SetDefaults_drops_line_idx(data, rank) ==
    [f \in StateFields |->
        IF f \in DOMAIN data /\ f # "line_idx" THEN data[f] ELSE InitialState(rank)[f]]
\* dict.setdefault over the six fields of a loaded state.json
SetDefaults(data, rank) ==
    [f \in StateFields |-> IF f \in DOMAIN data THEN data[f] ELSE InitialState(rank)[f]]

NoFile == [kind |-> "absent", step |-> 0]
EmptyFile == [kind |-> "empty", step |-> 0]
Names(step) == [kind |-> "name", step |-> step]

\* load_checkpoint: [ok, state]; ok = FALSE when it raises
load_checkpoint_ignore(lat, dirs, rank) == [ok |-> TRUE, state |-> InitialState(rank)]
load_checkpoint(lat, dirs, rank) ==
    IF lat.kind = "absent" THEN [ok |-> TRUE, state |-> InitialState(rank)]
    ELSE IF lat.kind = "empty" \/ lat.step \notin DOMAIN dirs
            THEN [ok |-> FALSE, state |-> InitialState(rank)]
    ELSE IF ~dirs[lat.step].state.complete
            THEN [ok |-> FALSE, state |-> InitialState(rank)]
    ELSE [ok |-> TRUE, state |-> SetDefaults(dirs[lat.step].state.data, rank)]

\* A shard file DATASET_DIR/shard_<digits>.txt is named here by its digits.
\* make_dataset.py writes f"shard_{s:05d}.txt".
ShardName(s) == [k \in 1 .. 5 |-> (s \div (10 ^ (5 - k))) % 10]

\* shard_index(path): int(path.stem.split("_")[1])
RECURSIVE shard_index(_)
shard_index(name) ==
    IF name = <<>> THEN 0
    ELSE 10 * shard_index(SubSeq(name, 1, Len(name) - 1)) + name[Len(name)]

\* the order of Path objects: the order of their strings, character by character; the
\* "." of ".txt" comes before every digit, so a name that begins another comes first
RECURSIVE PathLess(_, _)
PathLess(a, b) ==
    IF a = <<>> THEN b # <<>>
    ELSE IF b = <<>> THEN FALSE
    ELSE IF a[1] # b[1] THEN a[1] < b[1]
    ELSE PathLess(Tail(a), Tail(b))

\* sorted(DATASET_DIR.glob("shard_*.txt"))
RECURSIVE sorted(_)
sorted(files) ==
    IF files = {} THEN <<>>
    ELSE LET m == CHOOSE x \in files : \A y \in files \ {x} : PathLess(x, y)
         IN <<m>> \o sorted(files \ {m})

shard_index_matches(idx, rank) == idx % WORLD_SIZE = rank

\* assigned_shards (local filesystem branch) over the files of a directory
AssignedFiles(files, rank) ==
    SelectSeq(sorted(files), LAMBDA p : shard_index_matches(shard_index(p), rank))

\* assigned_shards of a worker of the job: the dataset holds make_dataset.py's files,
\* the shards are named by their index from here on
assigned_shards(rank) ==
    LET files == AssignedFiles({ ShardName(s) : s \in DOMAIN dataset }, rank)
    IN [k \in 1 .. Len(files) |-> shard_index(files[k])]

Min(a, b) == IF a <= b THEN a ELSE b
Max(a, b) == IF a >= b THEN a ELSE b

EmptyDir == [state |-> [present |-> FALSE, complete |-> FALSE, data |-> [step |-> 0]],
             manifest |-> FALSE]

IdleState == [step |-> 0, rank |-> 0, world_size |-> 0,
              shard_idx |-> 0, line_idx |-> 0, model_state |-> NoModel]


(* ------------------------- worker.py: main() ---------------------------- *)
WorkerAt(r, pc) == r < WORLD_SIZE /\ wlive[r] = "alive" /\ wpc[r] = pc

\* the process ends: its memory is gone, an unfinished temp directory is never read again
\* (its name carries the time and the pid, so no later process reuses it)
ProcessEnds(r, code) ==
    /\ wlive' = [wlive EXCEPT ![r] = "exited"]
    /\ wcode' = [wcode EXCEPT ![r] = code]
    /\ wpc' = [wpc EXCEPT ![r] = "dead"]
    /\ wstate' = [wstate EXCEPT ![r] = IdleState]
    /\ wmodel' = [wmodel EXCEPT ![r] = <<>>]
    /\ wsi' = [wsi EXCEPT ![r] = 0]
    /\ wfpos' = [wfpos EXCEPT ![r] = 0]
    /\ tmp' = [tmp EXCEPT ![r] = <<>>]
    /\ wresume' = [wresume EXCEPT ![r] = IdleState]
    /\ wemit' = [wemit EXCEPT ![r] = <<>>]

\* state = load_checkpoint(); an exception ends the process with code 1
WorkerLoad(r) ==
    /\ WorkerAt(r, "load")
    /\ LET res == load_checkpoint(latest[r], ckpt[r], r) IN
        IF res.ok
        THEN /\ wstate' = [wstate EXCEPT ![r] = res.state]
             /\ wresume' = [wresume EXCEPT ![r] = res.state]
             /\ wpc' = [wpc EXCEPT ![r] = "init"]
             /\ UNCHANGED <<wlive, wcode, wmodel, wsi, wfpos, tmp, wemit>>
        ELSE ProcessEnds(r, 1)
    /\ UNCHANGED <<xvars, env, dataset, ckpt, latest, wcommits, cvars, clog>>

\* shards = assigned_shards(); return when empty; load the model; clamp the resume values
ClampShardIdx(idx, nshards) == Min(idx, nshards - 1)
WorkerInit(r) ==
    /\ WorkerAt(r, "init")
    /\ LET shards == assigned_shards(r) IN
        IF Len(shards) = 0
        THEN /\ ProcessEnds(r, 0)
        ELSE /\ wmodel' = [wmodel EXCEPT ![r] =
                    IF wstate[r].model_state.is_none THEN <<>>
                    ELSE wstate[r].model_state.loss_history]
             /\ LET si0 == ClampShardIdx(wstate[r].shard_idx, Len(shards)) IN
                /\ wstate' = [wstate EXCEPT ![r].shard_idx = si0,
                                            ![r].line_idx = Max(wstate[r].line_idx, 0)]
                /\ wsi' = [wsi EXCEPT ![r] = si0]
             /\ wpc' = [wpc EXCEPT ![r] = "open"]
             /\ UNCHANGED <<wlive, wcode, wfpos, tmp, wresume, wemit>>
    /\ UNCHANGED <<xvars, env, dataset, ckpt, latest, wcommits, cvars, clog>>

\* one iteration header of `for si in range(state["shard_idx"], len(shards))`,
\* or the end of the loop: "finished all assigned shards", exit code 0
ResetLineIdx_keep(si, st) == st.line_idx
ResetLineIdx(si, st) == IF si # st.shard_idx THEN 0 ELSE st.line_idx
WorkerOpen(r) ==
    /\ WorkerAt(r, "open")
    /\ IF wsi[r] >= Len(assigned_shards(r))
       THEN ProcessEnds(r, 0)
       ELSE /\ wstate' = [wstate EXCEPT ![r].line_idx = ResetLineIdx(wsi[r], wstate[r])]
            /\ wfpos' = [wfpos EXCEPT ![r] = ResetLineIdx(wsi[r], wstate[r])]
            /\ wpc' = [wpc EXCEPT ![r] = "read"]
            /\ UNCHANGED <<wlive, wcode, wmodel, wsi, tmp, wresume, wemit>>
    /\ UNCHANGED <<xvars, env, dataset, ckpt, latest, wcommits, cvars, clog>>

\* one iteration of `for line in islice(f, start_line, None)`, or its end
ShouldCheckpoint_every_step(step) == step >= 1
ShouldCheckpoint(step) == step % CHECKPOINT_EVERY = 0
WorkerRead(r) ==
    /\ WorkerAt(r, "read")
    /\ LET shard == assigned_shards(r)[wsi[r] + 1] IN
        IF wfpos[r] < dataset[shard]
        THEN LET sample == [shard |-> shard, line |-> wfpos[r]]
                 hist == Append(wmodel[r], sample)
                 st == [wstate[r] EXCEPT !.step = @ + 1, !.shard_idx = wsi[r],
                                         !.line_idx = @ + 1]
             IN /\ wmodel' = [wmodel EXCEPT ![r] = hist]
                /\ wfpos' = [wfpos EXCEPT ![r] = @ + 1]
                /\ wemit' = [wemit EXCEPT ![r] =
                        Append(@, [step |-> st.step, sample |-> sample,
                                   si |-> st.shard_idx, li |-> st.line_idx])]
                /\ IF ShouldCheckpoint(st.step)
                   THEN /\ wstate' = [wstate EXCEPT ![r] =
                              [st EXCEPT !.model_state =
                                  [is_none |-> FALSE, loss_history |-> hist]]]
                        /\ wpc' = [wpc EXCEPT ![r] = "save"]
                   ELSE /\ wstate' = [wstate EXCEPT ![r] = st]
                        /\ UNCHANGED wpc
                /\ UNCHANGED wsi
        ELSE /\ wsi' = [wsi EXCEPT ![r] = @ + 1]
             /\ wpc' = [wpc EXCEPT ![r] = "open"]
             /\ UNCHANGED <<wstate, wmodel, wfpos, wemit>>
    /\ UNCHANGED <<xvars, env, dataset, wlive, wcode, tmp, ckpt, latest, wresume, wcommits,
                   cvars, clog>>


(* ------------------------- worker.py: save_checkpoint ------------------- *)
\* final_dir.exists(): the checkpoint is already there, only LATEST is rewritten;
\* otherwise tmp_dir.mkdir()
FinalDirExists(r, step) == step \in DOMAIN ckpt[r]
SaveBegin(r) ==
    /\ WorkerAt(r, "save")
    /\ IF FinalDirExists(r, wstate[r].step)
       THEN /\ wpc' = [wpc EXCEPT ![r] = "latest_open"]
            /\ UNCHANGED tmp
       ELSE /\ tmp' = [tmp EXCEPT ![r] = <<EmptyDir>>]
            /\ wpc' = [wpc EXCEPT ![r] = "state_open"]
    /\ UNCHANGED <<xvars, env, dataset, wlive, wcode, wstate, wmodel, wsi, wfpos, ckpt, latest,
                   wresume, wemit, wcommits, cvars, clog>>

\* open(tmp_dir / "state.json", "w"): the file exists and is empty
SaveStateOpen(r) ==
    /\ WorkerAt(r, "state_open")
    /\ tmp' = [tmp EXCEPT ![r] =
            <<[tmp[r][1] EXCEPT !.state = [present |-> TRUE, complete |-> FALSE,
                                           data |-> [step |-> 0]]]>>]
    /\ wpc' = [wpc EXCEPT ![r] = "state_dump"]
    /\ UNCHANGED <<xvars, env, dataset, wlive, wcode, wstate, wmodel, wsi, wfpos, ckpt, latest,
                   wresume, wemit, wcommits, cvars, clog>>

\* json.dump(state, f) and the close of the file: state.json is complete
json_dump_drops_model(state) ==
    [present |-> TRUE, complete |-> TRUE, data |-> [state EXCEPT !.model_state = NoModel]]
json_dump(state) == [present |-> TRUE, complete |-> TRUE, data |-> state]
SaveStateDump(r) ==
    /\ WorkerAt(r, "state_dump")
    /\ tmp' = [tmp EXCEPT ![r] = <<[tmp[r][1] EXCEPT !.state = json_dump(wstate[r])]>>]
    /\ wpc' = [wpc EXCEPT ![r] = "manifest"]
    /\ UNCHANGED <<xvars, env, dataset, wlive, wcode, wstate, wmodel, wsi, wfpos, ckpt, latest,
                   wresume, wemit, wcommits, cvars, clog>>

\* manifest.json is written (and state.json fsynced, which changes no content)
SaveManifest(r) ==
    /\ WorkerAt(r, "manifest")
    /\ tmp' = [tmp EXCEPT ![r] = <<[tmp[r][1] EXCEPT !.manifest = TRUE]>>]
    /\ wpc' = [wpc EXCEPT ![r] = "rename"]
    /\ UNCHANGED <<xvars, env, dataset, wlive, wcode, wstate, wmodel, wsi, wfpos, ckpt, latest,
                   wresume, wemit, wcommits, cvars, clog>>

\* tmp_dir.rename(final_dir); on FileExistsError the temp directory is removed
SaveRename(r) ==
    /\ WorkerAt(r, "rename")
    /\ LET step == wstate[r].step IN
        IF FinalDirExists(r, step)
        THEN UNCHANGED <<ckpt, wcommits>>
        ELSE /\ ckpt' = [ckpt EXCEPT ![r] = (step :> tmp[r][1]) @@ ckpt[r]]
             /\ wcommits' = [wcommits EXCEPT ![r] =
                    Append(@, [event |-> "rename", step |-> step])]
    /\ tmp' = [tmp EXCEPT ![r] = <<>>]
    /\ wpc' = [wpc EXCEPT ![r] = "latest_open"]
    /\ UNCHANGED <<xvars, env, dataset, wlive, wcode, wstate, wmodel, wsi, wfpos, latest,
                   wresume, wemit, cvars, clog>>

\* LATEST_FILE.write_text(final_dir.name), first half: open(.., "w") creates or
\* truncates the file
SaveLatestOpen(r) ==
    /\ WorkerAt(r, "latest_open")
    /\ latest' = [latest EXCEPT ![r] = EmptyFile]
    /\ wpc' = [wpc EXCEPT ![r] = "latest_write"]
    /\ UNCHANGED <<xvars, env, dataset, wlive, wcode, wstate, wmodel, wsi, wfpos, tmp, ckpt,
                   wresume, wemit, wcommits, cvars, clog>>

\* LATEST_FILE.write_text(final_dir.name), second half: the name is written; the
\* call returns into the line loop
SaveLatestWrite(r) ==
    /\ WorkerAt(r, "latest_write")
    /\ latest' = [latest EXCEPT ![r] = Names(wstate[r].step)]
    /\ wcommits' = [wcommits EXCEPT ![r] =
            Append(@, [event |-> "latest", step |-> wstate[r].step])]
    /\ wpc' = [wpc EXCEPT ![r] = "read"]
    /\ UNCHANGED <<xvars, env, dataset, wlive, wcode, wstate, wmodel, wsi, wfpos, tmp, ckpt,
                   wresume, wemit, cvars, clog>>

\* the worker process dies at any point: an uncaught exception of the step function
\* or of I/O, SIGINT (KeyboardInterrupt) or a kill: a non-zero exit code
WorkerCrash(r) ==
    /\ r < WORLD_SIZE
    /\ wlive[r] = "alive"
    /\ ProcessEnds(r, 1)
    /\ UNCHANGED <<xvars, env, dataset, ckpt, latest, wcommits, cvars, clog>>

WorkerStep(r) ==
    \/ WorkerLoad(r)
    \/ WorkerInit(r)
    \/ WorkerOpen(r)
    \/ WorkerRead(r)
    \/ SaveBegin(r)
    \/ SaveStateOpen(r)
    \/ SaveStateDump(r)
    \/ SaveManifest(r)
    \/ SaveRename(r)
    \/ SaveLatestOpen(r)
    \/ SaveLatestWrite(r)


(* ------------------------- coordinator.py: main() ----------------------- *)
\* start_worker(rank): a new worker process of this rank, at the top of worker.py
start_worker(r) ==
    /\ wlive' = [wlive EXCEPT ![r] = "alive"]
    /\ wcode' = [wcode EXCEPT ![r] = 0]
    /\ wpc' = [wpc EXCEPT ![r] = "load"]
    /\ wstate' = [wstate EXCEPT ![r] = IdleState]
    /\ wmodel' = [wmodel EXCEPT ![r] = <<>>]
    /\ wsi' = [wsi EXCEPT ![r] = 0]
    /\ wfpos' = [wfpos EXCEPT ![r] = 0]
    /\ wresume' = [wresume EXCEPT ![r] = IdleState]
    /\ wemit' = [wemit EXCEPT ![r] = <<>>]
    /\ starts' = [starts EXCEPT ![r] = @ + 1]
    /\ UNCHANGED <<tmp, ckpt, latest, wcommits>>

Tracked(sl) == { r \in 0 .. (WORLD_SIZE - 1) : sl[r].tracked }

\* the next rank of list(workers.items()) at or after rank i; WORLD_SIZE at the end
NextTracked(sl, i) ==
    IF \E r \in Tracked(sl) : r >= i
    THEN CHOOSE r \in Tracked(sl) : r >= i /\ \A q \in Tracked(sl) : q >= i => r <= q
    ELSE WORLD_SIZE

\* w.proc.poll() is not None: the handle the slot holds has exited (while a respawned
\* process is not yet stored in w.proc the slot still holds the old, exited one)
HandleExited(r) == r \in unrecorded \/ wlive[r] # "alive"

\* for rank in range(WORLD_SIZE): start_worker(rank); workers[rank] = WorkerProc(..);
\* after the last one the signal handlers are installed and the monitor loop begins
CoordSpawn ==
    /\ cpc = "spawn"
    /\ start_worker(cidx)
    /\ slots' = [slots EXCEPT ![cidx] = [tracked |-> TRUE, restarts |-> 0]]
    /\ IF cidx + 1 = WORLD_SIZE
       THEN cpc' = "poll" /\ cidx' = 0
       ELSE cpc' = "spawn" /\ cidx' = cidx + 1
    /\ UNCHANGED <<xvars, env, dataset, unrecorded, shutting_down, ccode, clog>>

\* print(f"[coord] rank={rank} max restarts hit; leaving it dead (demo).")
MaxRestartsLine(r) ==
    <<"rank=0 max restarts hit", "rank=1 max restarts hit", "rank=2 max restarts hit",
      "rank=3 max restarts hit">>[r + 1]

\* (variant) the cap is passed before a slot is left dead
AtRestartCap_above(restarts) == restarts > MAX_RESTARTS_PER_WORKER

\* one iteration of `for rank, w in list(workers.items())`
ExitedCleanly_any(code) == code >= 0
ExitedCleanly(code) == code = 0
AtRestartCap(restarts) == restarts >= MAX_RESTARTS_PER_WORKER
CoordPoll ==
    /\ cpc = "poll"
    /\ cidx < WORLD_SIZE
    /\ LET r == cidx IN
        IF ~HandleExited(r)
        THEN /\ cidx' = NextTracked(slots, r + 1)
             /\ UNCHANGED <<cpc, slots, clog>>
        ELSE IF ExitedCleanly(wcode[r])
        THEN /\ slots' = [slots EXCEPT ![r].tracked = FALSE]
             /\ cidx' = NextTracked(slots', r + 1)
             /\ UNCHANGED <<cpc, clog>>
        ELSE IF AtRestartCap(slots[r].restarts)
        THEN /\ clog' = clog \cup {MaxRestartsLine(r)}
             /\ cidx' = NextTracked(slots, r + 1)
             /\ UNCHANGED <<cpc, slots>>
        ELSE /\ slots' = [slots EXCEPT ![r].restarts = @ + 1]
             /\ cpc' = "backoff"
             /\ UNCHANGED <<cidx, clog>>
    /\ UNCHANGED <<xvars, env, dataset, wvars, unrecorded, shutting_down, ccode, starts>>

\* after time.sleep(RESTART_BACKOFF_SEC): new_proc = start_worker(rank)
CoordRestart ==
    /\ cpc = "backoff"
    /\ start_worker(cidx)
    /\ unrecorded' = {cidx}
    /\ cpc' = "record"
    /\ UNCHANGED <<xvars, env, dataset, cidx, slots, shutting_down, ccode, clog>>

\* w.proc = new_proc
CoordRecord ==
    /\ cpc = "record"
    /\ unrecorded' = {}
    /\ cidx' = NextTracked(slots, cidx + 1)
    /\ cpc' = "poll"
    /\ UNCHANGED <<xvars, env, dataset, wvars, slots, shutting_down, ccode, starts, clog>>

\* the end of one pass: if len(workers) == 0, print the sentinel and break;
\* else time.sleep(POLL_INTERVAL_SEC) and the next pass
\* (variant) the loop also ends when every tracked worker has exited
AllWorkersDone_all_exited(sl) == \A r \in Tracked(sl) : wlive[r] = "exited"
AllWorkersDone(sl) == Tracked(sl) = {}
CoordLoopEnd ==
    /\ cpc = "poll"
    /\ cidx = WORLD_SIZE
    /\ IF AllWorkersDone(slots)
       THEN /\ clog' = clog \cup {"all workers DONE. Job COMPLETED."}
            /\ cpc' = "finishing"
            /\ UNCHANGED cidx
       ELSE /\ cidx' = NextTracked(slots, 0)
            /\ UNCHANGED <<cpc, clog>>
    /\ UNCHANGED <<xvars, env, dataset, wvars, slots, unrecorded, shutting_down, ccode,
                   starts>>

\* main() returns: the process exits with code 0
CoordExit ==
    /\ cpc = "finishing"
    /\ cpc' = "exited"
    /\ cidx' = 0
    /\ ccode' = 0
    /\ UNCHANGED <<xvars, env, dataset, wvars, slots, unrecorded, shutting_down, clog,
                   starts>>

\* SIGINT or SIGTERM once the handlers are installed: shutdown() runs to its end in
\* the main thread. It sets shutting_down, sends SIGINT to every worker whose handle
\* has not exited, waits up to 3 s, kills those still running, prints "[coord] done."
\* and raises SystemExit(0). The monitor loop never runs again. (What a worker does
\* during the wait it can also do before the signal, so the wait adds no state.)
HandlersInstalled == cpc \in {"poll", "backoff", "record", "finishing"}
ShutdownExitCode == 0
KilledByShutdown == { r \in Tracked(slots) : ~HandleExited(r) }
shutdown ==
    /\ HandlersInstalled
    /\ ~shutting_down
    /\ shutting_down' = TRUE
    /\ wlive' = [r \in Ranks |-> IF r \in KilledByShutdown THEN "exited" ELSE wlive[r]]
    /\ wcode' = [r \in Ranks |-> IF r \in KilledByShutdown THEN 1 ELSE wcode[r]]
    /\ wpc' = [r \in Ranks |-> IF r \in KilledByShutdown THEN "dead" ELSE wpc[r]]
    /\ wstate' = [r \in Ranks |-> IF r \in KilledByShutdown THEN IdleState ELSE wstate[r]]
    /\ wmodel' = [r \in Ranks |-> IF r \in KilledByShutdown THEN <<>> ELSE wmodel[r]]
    /\ wsi' = [r \in Ranks |-> IF r \in KilledByShutdown THEN 0 ELSE wsi[r]]
    /\ wfpos' = [r \in Ranks |-> IF r \in KilledByShutdown THEN 0 ELSE wfpos[r]]
    /\ tmp' = [r \in Ranks |-> IF r \in KilledByShutdown THEN <<>> ELSE tmp[r]]
    /\ wresume' = [r \in Ranks |-> IF r \in KilledByShutdown THEN IdleState ELSE wresume[r]]
    /\ wemit' = [r \in Ranks |-> IF r \in KilledByShutdown THEN <<>> ELSE wemit[r]]
    /\ clog' = clog \cup {"[coord] done."}
    /\ cpc' = "exited"
    /\ cidx' = 0
    /\ ccode' = ShutdownExitCode
    /\ UNCHANGED <<xvars, env, dataset, ckpt, latest, wcommits, slots, unrecorded, starts>>

\* the coordinator process is killed (SIGKILL at any time, or SIGINT/SIGTERM before
\* the handlers are installed): a non-zero exit code; its workers keep running
CoordKilled ==
    /\ cpc # "exited"
    /\ cpc' = "exited"
    /\ cidx' = 0
    /\ ccode' = 1
    /\ UNCHANGED <<xvars, env, dataset, wvars, slots, unrecorded, shutting_down, clog,
                   starts>>

CoordStep ==
    \/ CoordSpawn
    \/ CoordPoll
    \/ CoordRestart
    \/ CoordRecord
    \/ CoordLoopEnd
    \/ CoordExit

(* ------------------------- values of the parts a specification leaves out *)
NoRoundTrip == [done |-> FALSE, s |-> IdleState, before |-> <<>>, res |-> [ok |-> FALSE, state |-> IdleState]]
RoundTripIdle == roundtrip = NoRoundTrip

None == <<>>
NoCall == [op |-> "none", job_id |-> "", status |-> "", exit_code |-> None,
           before |-> <<>>]
JobIds == {"job-a", "job-b"}
NoPurge == [active |-> FALSE]
NoStream == [pc |-> "closed", job_id |-> "", offset |-> 0, chunks |-> <<>>,
             st |-> "", final_chunk |-> <<>>, final_len |-> 0]
Threads == {1, 2}
NoThread == [pc |-> "idle", op |-> "", job_id |-> "", out |-> "", patch |-> <<>>,
             idx |-> <<>>, torn |-> FALSE]
NoListing == [files |-> {}, lists |-> <<>>]
ApiIdle ==
    /\ threads = [t \in Threads |-> NoThread]
    /\ listing = NoListing
    /\ wprocs = {}
    /\ logbytes = [j \in JobIds |-> <<>>]
    /\ orphans = {}
    /\ stream = NoStream
    /\ now = 0
    /\ ckdirs = {}
    /\ stop_sent = {}
    /\ purging = NoPurge
ManagerIdle ==
    /\ ApiIdle
    /\ jobs = <<>>
    /\ index = <<>>
    /\ procs = <<>>
    /\ logs = <<>>
    /\ ret = NoCall
    /\ seen_completed = [j \in JobIds |-> FALSE]

(* ------------------------- the job: coordinator and workers ------------- *)
JobInit ==
    /\ env \in Envs
    /\ dataset \in Datasets
    /\ wlive = [r \in Ranks |-> "none"]
    /\ wcode = [r \in Ranks |-> 0]
    /\ wpc = [r \in Ranks |-> "dead"]
    /\ wstate = [r \in Ranks |-> IdleState]
    /\ wmodel = [r \in Ranks |-> <<>>]
    /\ wsi = [r \in Ranks |-> 0]
    /\ wfpos = [r \in Ranks |-> 0]
    /\ tmp = [r \in Ranks |-> <<>>]
    /\ ckpt = [r \in Ranks |-> <<>>]
    /\ latest = [r \in Ranks |-> NoFile]
    /\ wresume = [r \in Ranks |-> IdleState]
    /\ wemit = [r \in Ranks |-> <<>>]
    /\ wcommits = [r \in Ranks |-> <<>>]
    /\ cpc = "spawn"
    /\ cidx = 0
    /\ slots = [r \in Ranks |-> [tracked |-> FALSE, restarts |-> 0]]
    /\ unrecorded = {}
    /\ shutting_down = FALSE
    /\ ccode = 0
    /\ starts = [r \in Ranks |-> 0]
    /\ clog = {}
    /\ RoundTripIdle
    /\ ManagerIdle

JobNext ==
    \/ \E r \in Ranks : WorkerStep(r)
    \/ \E r \in Ranks : WorkerCrash(r)
    \/ CoordStep
    \/ shutdown
    \/ CoordKilled

SpecJob == JobInit /\ [][JobNext]_vars


\* the job left alone: no signal reaches the coordinator and nothing kills it; the
\* operating system keeps scheduling the coordinator and every live worker
UnattendedNext ==
    \/ \E r \in Ranks : WorkerStep(r)
    \/ \E r \in Ranks : WorkerCrash(r)
    \/ CoordStep

SpecJobUnattended ==
    /\ JobInit
    /\ [][UnattendedNext]_vars
    /\ WF_vars(CoordStep)
    /\ \A r \in Ranks : WF_vars(WorkerStep(r))

(* ------------------------- definitions used by the properties ----------- *)
RECURSIVE LinesOfShards(_, _)
\* the samples of the shards shardseq[i..], in reading order
LinesOfShards(shardseq, i) ==
    IF i > Len(shardseq) THEN <<>>
    ELSE [l \in 1 .. dataset[shardseq[i]] |-> [shard |-> shardseq[i], line |-> l - 1]]
         \o LinesOfShards(shardseq, i + 1)

\* the line sequence of a rank: its assigned shards in order, each line by line
AssignedLines(r) == LinesOfShards(assigned_shards(r), 1)

RECURSIVE LinesBefore(_, _, _)
\* number of lines of the rank's assigned shards that precede position (si, li)
LinesBefore(r, si, li) ==
    IF si = 0 THEN li
    ELSE dataset[assigned_shards(r)[si]] + LinesBefore(r, si - 1, li)

RECURSIVE FirstLineFrom(_, _, _)
\* the sample at position (si, li), or line 0 of the next shard that has a line
FirstLineFrom(r, si, li) ==
    IF si >= Len(assigned_shards(r)) THEN [shard |-> 0 - 1, line |-> 0 - 1]
    ELSE IF li < dataset[assigned_shards(r)[si + 1]]
         THEN [shard |-> assigned_shards(r)[si + 1], line |-> li]
         ELSE FirstLineFrom(r, si + 1, 0)

Prefix(seq, n) == SubSeq(seq, 1, n)

EventSteps(r, ev) ==
    LET idx == { i \in 1 .. Len(wcommits[r]) : wcommits[r][i].event = ev }
    IN [i \in 1 .. Cardinality(idx) |->
            wcommits[r][CHOOSE j \in idx :
                Cardinality({ k \in idx : k <= j }) = i].step]

StrictlyIncreasing(seq) == \A i \in 1 .. (Len(seq) - 1) : seq[i] < seq[i + 1]

\* the step stored in the checkpoint LATEST names, 0 when there is no LATEST
StoredStep(r) ==
    IF latest[r].kind = "name" /\ latest[r].step \in DOMAIN ckpt[r]
    THEN ckpt[r][latest[r].step].state.data.step
    ELSE 0

Restarted(r) == r < WORLD_SIZE /\ slots[r].restarts >= 1

AllRanksExitedZero ==
    \A r \in 0 .. (WORLD_SIZE - 1) : wlive[r] = "exited" /\ wcode[r] = 0

\* a slot left DEAD: still tracked, at the restart cap, its process exited non-zero
Dead(r) ==
    /\ slots[r].tracked
    /\ slots[r].restarts >= MAX_RESTARTS_PER_WORKER
    /\ wlive[r] = "exited"
    /\ wcode[r] # 0
    /\ r \notin unrecorded

\* the persisted state of the rank is at the end of its last assigned shard
PersistedFinal(r) ==
    LET res == load_checkpoint(latest[r], ckpt[r], r)
        shards == assigned_shards(r)
    IN /\ res.ok
       /\ Len(shards) > 0
       /\ res.state.shard_idx = Len(shards) - 1
       /\ res.state.line_idx = dataset[shards[Len(shards)]]

(* ------------------------- C3 ------------------------------------------- *)
\* C3 (as claimed): in every reachable state of a worker's checkpoint directory,
\* crash states included, if LATEST exists then the directory it names exists and
\* holds a complete state.json, so load_checkpoint does not raise.
C3_LatestAlwaysLoadable ==
    \A r \in Ranks :
        latest[r].kind # "absent" =>
            /\ latest[r].kind = "name"
            /\ latest[r].step \in DOMAIN ckpt[r]
            /\ ckpt[r][latest[r].step].state.complete
            /\ load_checkpoint(latest[r], ckpt[r], r).ok

C5_ResumeStep ==
    /\ [][\A r \in Ranks :
            (wpc[r] = "load" /\ wpc'[r] = "init") => wstate'[r].step = StoredStep(r)]_vars
    /\ [](\A r \in Ranks :
            Len(wemit[r]) > 0 => wemit[r][1].step = wresume[r].step + 1)

C5_Witness ==
    \E r \in Ranks :
        /\ Restarted(r)
        /\ wresume[r].step > 0
        /\ wresume[r].step = StoredStep(r)
        /\ Len(wemit[r]) > 0

(* ------------------------- C6 ------------------------------------------- *)
\* C6: for one rank, across crashes and restarts, the steps of the checkpoint
\* directories renamed into place are strictly increasing, the steps written to
\* LATEST are strictly increasing, and every one is at least CHECKPOINT_EVERY.
C6_CommitsIncrease ==
    \A r \in Ranks :
        /\ StrictlyIncreasing(EventSteps(r, "rename"))
        /\ StrictlyIncreasing(EventSteps(r, "latest"))
        /\ \A i \in 1 .. Len(wcommits[r]) : wcommits[r][i].step >= CHECKPOINT_EVERY

\* a restarted worker has committed again after the checkpoints of its predecessor
C6_Witness ==
    \E r \in Ranks :
        /\ Restarted(r)
        /\ wresume[r].step > 0
        /\ Len(EventSteps(r, "latest")) >= 2
        /\ latest[r].kind = "name"
        /\ latest[r].step > wresume[r].step

DeadAndResolved ==
    /\ cpc # "exited"
    /\ \E r \in 0 .. (WORLD_SIZE - 1) : Dead(r)
    /\ \A r \in 0 .. (WORLD_SIZE - 1) : Dead(r) \/ ~slots[r].tracked
    /\ cpc \in {"poll", "finishing"}

\* C8 (as claimed): once a slot is DEAD at the restart cap and every other slot is
\* DONE or DEAD, the coordinator eventually exits with a non-zero code.
C8_DeadJobTerminatesNonZero ==
    DeadAndResolved ~> (cpc = "exited" /\ ccode # 0)

C10_ExitZeroAllConsumed ==
    (cpc = "exited" /\ ccode = 0) =>
        \A r \in 0 .. (WORLD_SIZE - 1) : PersistedFinal(r) \/ Dead(r)


(* ------------------------- C25 ------------------------------------------ *)
JobRanks == 0 .. (WORLD_SIZE - 1)
ExitedNonZero(r) == wlive[r] = "exited" /\ wcode[r] # 0
Started(r) == starts'[r] # starts[r]

\* C25: each slot's restart counter is at most MAX_RESTARTS_PER_WORKER and a rank is
\* started at most MAX_RESTARTS_PER_WORKER + 1 times; after the first start a rank is
\* started only when its process has exited with a non-zero code and its counter,
\* below the cap, has been incremented by one for this start; a rank whose worker
\* exited 0 leaves the tracked set and is never started again.
C25_RestartsWithinCap ==
    /\ [](\A r \in JobRanks :
            /\ slots[r].restarts <= MAX_RESTARTS_PER_WORKER
            /\ starts[r] <= MAX_RESTARTS_PER_WORKER + 1)
    /\ [][\A r \in JobRanks :
            /\ Started(r) =>
                  /\ starts'[r] = starts[r] + 1
                  /\ \/ cpc = "spawn" /\ starts[r] = 0
                     \/ /\ ExitedNonZero(r)
                        /\ slots[r].tracked
                        /\ slots[r].restarts = starts[r]
            /\ slots'[r].restarts # slots[r].restarts =>
                  /\ slots'[r].restarts = slots[r].restarts + 1
                  /\ slots[r].restarts < MAX_RESTARTS_PER_WORKER
                  /\ slots[r].restarts = starts[r] - 1
                  /\ ExitedNonZero(r)
            /\ (slots[r].tracked /\ ~slots'[r].tracked) =>
                  (wlive[r] = "exited" /\ wcode[r] = 0)
            /\ (~slots[r].tracked /\ cpc # "spawn") =>
                  (~slots'[r].tracked /\ ~Started(r))
       ]_vars

\* a rank was restarted up to the cap and its last process failed too
C25_Witness ==
    \E r \in JobRanks :
        /\ MAX_RESTARTS_PER_WORKER >= 1
        /\ slots[r].restarts = MAX_RESTARTS_PER_WORKER
        /\ starts[r] = MAX_RESTARTS_PER_WORKER + 1
        /\ ExitedNonZero(r)
        /\ MaxRestartsLine(r) \in clog

(* ------------------------- C26 ------------------------------------------ *)
JobCompletedLine == "all workers DONE. Job COMPLETED."
PrintsJobCompleted == cpc # "finishing" /\ cpc' = "finishing"

\* C26: the coordinator prints "all workers DONE. Job COMPLETED." only in a state
\* where every rank's worker has exited with code 0, no slot is DEAD and no shutdown
\* has been triggered, only at the end of a pass of its loop, and not a second time.
C26_CompletedLineOnlyWhenAllDone ==
    [][/\ PrintsJobCompleted =>
            /\ AllRanksExitedZero
            /\ \A r \in JobRanks : ~Dead(r)
            /\ ~shutting_down
            /\ JobCompletedLine \notin clog
            /\ JobCompletedLine \in clog'
       /\ (JobCompletedLine \in clog' /\ JobCompletedLine \notin clog) => PrintsJobCompleted
       /\ JobCompletedLine \in clog => ~PrintsJobCompleted
      ]_vars

\* the line is in the log of a job one of whose workers had to be restarted
C26_Witness ==
    /\ JobCompletedLine \in clog
    /\ WORLD_SIZE = 2
    /\ \E r \in JobRanks : Restarted(r)
    /\ AllRanksExitedZero

(* ------------------------- C27 ------------------------------------------ *)
ExitedThroughShutdown == cpc = "exited" /\ shutting_down

\* C27 (as claimed): at whatever point of the monitor loop the signal arrives, when
\* the coordinator has exited through the shutdown handler none of the workers it
\* started is alive, and no worker is started once shutting_down is set.
C27_ShutdownLeavesNoWorker ==
    [][/\ ExitedThroughShutdown' => \A r \in JobRanks : wlive'[r] # "alive"
       /\ shutting_down => \A r \in JobRanks : ~Started(r)
      ]_vars

(* ------------------------- C29 ------------------------------------------ *)
\* the pass of the monitor loop is at a slot at the cap whose process exited non-zero
\* and prints the "max restarts hit" line for it
PrintsMaxRestarts(r) ==
    /\ cidx = r
    /\ HandleExited(r)
    /\ ~ExitedCleanly(wcode[r])
    /\ AtRestartCap(slots[r].restarts)
    /\ CoordPoll

\* C29 (as claimed): the coordinator logs "max restarts hit" for a slot exactly once:
\* once the line for a rank is in the log it is not printed for that rank again.
C29_MaxRestartsLoggedOnce ==
    [][\A r \in JobRanks : MaxRestartsLine(r) \in clog => ~PrintsMaxRestarts(r)]_vars

(* ------------------------- save_checkpoint(s); load_checkpoint() -------- *)
MaxStep == 2

\* the states a worker can hand to save_checkpoint
RoundTripStates ==
    { [step |-> n, rank |-> 0, world_size |-> 1, shard_idx |-> 0, line_idx |-> li,
       model_state |-> m] :
        n \in 1 .. MaxStep, li \in 0 .. 1,
        m \in {NoModel, [is_none |-> FALSE,
                         loss_history |-> <<[shard |-> 0, line |-> 0]>>]} }

\* what a step directory published earlier can hold: a complete state.json, written
\* by this or by an older version of the worker (fields missing)
PriorDirs ==
    { [state |-> [present |-> TRUE, complete |-> TRUE, data |-> d], manifest |-> TRUE] :
        d \in RoundTripStates \cup { [step |-> n] : n \in 1 .. MaxStep } }

PriorCheckpoints == UNION { [S -> PriorDirs] : S \in SUBSET (1 .. MaxStep) }

RoundTripInit ==
    /\ env = [WORLD_SIZE |-> 1, CHECKPOINT_EVERY |-> 1, MAX_RESTARTS_PER_WORKER |-> 0]
    /\ dataset = <<>>
    /\ wlive = [r \in Ranks |-> IF r = 0 THEN "alive" ELSE "none"]
    /\ wcode = [r \in Ranks |-> 0]
    /\ wpc = [r \in Ranks |-> IF r = 0 THEN "save" ELSE "dead"]
    /\ \E s \in RoundTripStates :
        /\ wstate = [r \in Ranks |-> IF r = 0 THEN s ELSE IdleState]
        /\ \E prior \in PriorCheckpoints :
            /\ ckpt = [r \in Ranks |-> IF r = 0 THEN prior ELSE <<>>]
            /\ roundtrip = [NoRoundTrip EXCEPT !.s = s, !.before = prior]
            /\ \E lat \in {NoFile, EmptyFile} \cup { Names(n) : n \in DOMAIN prior } :
                latest = [r \in Ranks |-> IF r = 0 THEN lat ELSE NoFile]
    /\ wmodel = [r \in Ranks |-> <<>>]
    /\ wsi = [r \in Ranks |-> 0]
    /\ wfpos = [r \in Ranks |-> 0]
    /\ tmp = [r \in Ranks |-> <<>>]
    /\ wresume = [r \in Ranks |-> IdleState]
    /\ wemit = [r \in Ranks |-> <<>>]
    /\ wcommits = [r \in Ranks |-> <<>>]
    /\ cpc = "idle"
    /\ cidx = 0
    /\ slots = [r \in Ranks |-> [tracked |-> FALSE, restarts |-> 0]]
    /\ unrecorded = {}
    /\ shutting_down = FALSE
    /\ ccode = 0
    /\ starts = [r \in Ranks |-> 0]
    /\ clog = {}
    /\ ManagerIdle

\* load_checkpoint() right after save_checkpoint(s) has returned
RoundTripLoad ==
    /\ WorkerAt(0, "read")
    /\ ~roundtrip.done
    /\ roundtrip' = [roundtrip EXCEPT !.done = TRUE,
                                      !.res = load_checkpoint(latest[0], ckpt[0], 0)]
    /\ UNCHANGED <<jvars, mvars>>

RoundTripNext ==
    \/ SaveBegin(0)
    \/ SaveStateOpen(0)
    \/ SaveStateDump(0)
    \/ SaveManifest(0)
    \/ SaveRename(0)
    \/ SaveLatestOpen(0)
    \/ SaveLatestWrite(0)
    \/ RoundTripLoad

SpecRoundTrip == RoundTripInit /\ [][RoundTripNext]_vars

(* ------------------------- C7 ------------------------------------------- *)
\* C7 (as claimed): for every state s and every prior content of the checkpoint
\* directory, save_checkpoint(s) followed by load_checkpoint() returns s.
C7_RoundTripAlways ==
    roundtrip.done => (roundtrip.res.ok /\ roundtrip.res.state = roundtrip.s)

\* C7 (amended): save_checkpoint(s) followed by load_checkpoint() returns s when no
\* directory step_<s.step> existed before the call; when one existed, it is kept and
\* load_checkpoint() returns the state stored in it (defaults filled in).
C7_RoundTripUnlessPublished ==
    roundtrip.done =>
        /\ roundtrip.res.ok
        /\ roundtrip.res.state =
              IF roundtrip.s.step \in DOMAIN roundtrip.before
              THEN SetDefaults(roundtrip.before[roundtrip.s.step].state.data, 0)
              ELSE roundtrip.s

\* a state with a model was saved beside older checkpoints and read back
C7_Witness ==
    /\ roundtrip.done
    /\ roundtrip.s.step \notin DOMAIN roundtrip.before
    /\ roundtrip.before # <<>>
    /\ ~roundtrip.s.model_state.is_none
    /\ roundtrip.res.state = roundtrip.s


(* ------------------------- assigned_shards over a directory -------------- *)
MaxDigit == 2
MaxDigits == 2
MaxFiles == 3

\* the files shard_<digits>.txt a directory may hold
ShardFiles == UNION { [1 .. n -> 0 .. MaxDigit] : n \in 1 .. MaxDigits }
Directories == { D \in SUBSET ShardFiles : Cardinality(D) <= MaxFiles }

ShardsInit ==
    /\ env \in [WORLD_SIZE : 1 .. MaxWorld, CHECKPOINT_EVERY : {1},
                MAX_RESTARTS_PER_WORKER : {0}]
    /\ dataset = <<>>
    /\ wlive = [r \in Ranks |-> "none"]
    /\ wcode = [r \in Ranks |-> 0]
    /\ wpc = [r \in Ranks |-> "dead"]
    /\ wstate = [r \in Ranks |-> IdleState]
    /\ wmodel = [r \in Ranks |-> <<>>]
    /\ wsi = [r \in Ranks |-> 0]
    /\ wfpos = [r \in Ranks |-> 0]
    /\ tmp = [r \in Ranks |-> <<>>]
    /\ ckpt = [r \in Ranks |-> <<>>]
    /\ latest = [r \in Ranks |-> NoFile]
    /\ wresume = [r \in Ranks |-> IdleState]
    /\ wemit = [r \in Ranks |-> <<>>]
    /\ wcommits = [r \in Ranks |-> <<>>]
    /\ cpc = "idle"
    /\ cidx = 0
    /\ slots = [r \in Ranks |-> [tracked |-> FALSE, restarts |-> 0]]
    /\ unrecorded = {}
    /\ shutting_down = FALSE
    /\ ccode = 0
    /\ starts = [r \in Ranks |-> 0]
    /\ clog = {}
    /\ RoundTripIdle
    /\ jobs = <<>>
    /\ index = <<>>
    /\ procs = <<>>
    /\ logs = <<>>
    /\ ret = NoCall
    /\ seen_completed = [j \in JobIds |-> FALSE]
    /\ threads = [t \in Threads |-> NoThread]
    /\ logbytes = [j \in JobIds |-> <<>>]
    /\ orphans = {}
    /\ stream = NoStream
    /\ now = 0
    /\ ckdirs = {}
    /\ stop_sent = {}
    /\ purging = NoPurge
    /\ wprocs = {}
    /\ \E D \in Directories : listing = [files |-> D, lists |-> <<>>]

\* the worker of a rank calls assigned_shards()
ListShards(rank) ==
    /\ rank \in 0 .. (WORLD_SIZE - 1)
    /\ rank \notin DOMAIN listing.lists
    /\ listing' = [listing EXCEPT !.lists = (rank :> AssignedFiles(listing.files, rank)) @@ @]
    /\ UNCHANGED <<jvars, roundtrip, jobs, index, procs, logs, ret, seen_completed, now,
                   ckdirs, stop_sent, purging, svars, threads, wprocs>>

ShardsNext == \E rank \in Ranks : ListShards(rank)

SpecShards == ShardsInit /\ [][ShardsNext]_vars

(* ------------------------- C22 ------------------------------------------ *)
Elements(seq) == { seq[k] : k \in DOMAIN seq }
NoRepeats(seq) == \A a, b \in DOMAIN seq : seq[a] = seq[b] => a = b
IncreasingIndex(seq) ==
    \A a, b \in DOMAIN seq : a < b => shard_index(seq[a]) <= shard_index(seq[b])
AllListed == DOMAIN listing.lists = 0 .. (WORLD_SIZE - 1)

\* C22 (as claimed): the lists assigned_shards computes for the ranks are pairwise
\* disjoint, together hold every shard file exactly once, and the list of rank r is
\* the files with shard_index mod WORLD_SIZE = r in increasing shard_index order.
C22_ShardsPartitionedInIndexOrder ==
    /\ \A r \in DOMAIN listing.lists :
          /\ NoRepeats(listing.lists[r])
          /\ Elements(listing.lists[r]) =
                { f \in listing.files : shard_index(f) % WORLD_SIZE = r }
          /\ IncreasingIndex(listing.lists[r])
    /\ \A r, q \in DOMAIN listing.lists :
          r # q => Elements(listing.lists[r]) \cap Elements(listing.lists[q]) = {}
    /\ AllListed =>
          UNION { Elements(listing.lists[r]) : r \in DOMAIN listing.lists } = listing.files

(* ------------------------- job_manager.py: data -------------------------- *)
MaxPids == 2
Pids == 1 .. MaxPids

SentinelCompleted == "all workers DONE. Job COMPLETED."
SentinelMaxRestarts == "max restarts hit"
SentinelTraceback == "Traceback (most recent call last)"

FreePid == [state |-> "free", owner |-> "", phase |-> "", code |-> 0, child |-> FALSE,
            term |-> FALSE]
NoHandle == [held |-> FALSE, pid |-> 0, returncode |-> None]
NoLog == [exists |-> FALSE, lines |-> {}]

\* dict.get(key, default)
Get(d, key, default) == IF key \in DOMAIN d THEN d[key] ELSE default

\* _ensure_index_job: a job_id the index does not have gets the entry {"job_id": job_id}
_ensure_index_job(idx, job_id) ==
    IF job_id \in DOMAIN idx THEN idx ELSE (job_id :> [job_id |-> job_id]) @@ idx

\* (variant) the patch is not written
_patch_index_skips(idx, job_id, patch) == idx
\* _patch_index: read, ensure, update the entry with the patch, write
_patch_index(idx, job_id, patch) ==
    LET e == _ensure_index_job(idx, job_id)
    IN [e EXCEPT ![job_id] = patch @@ e[job_id]]

\* _pid_alive: a process with this pid is running and is no zombie
_pid_alive(pid) == procs[pid].state = "running"

\* (variant) the log is never taken to show completion
_log_indicates_completed_never(job_id) == FALSE
\* _log_indicates_completed: the log exists and contains "Job COMPLETED."
_log_indicates_completed(job_id) ==
    logs[job_id].exists /\ SentinelCompleted \in logs[job_id].lines

\* proc.poll(): the cached return code, else the code of the exited child, else None
poll(handle) ==
    IF handle.returncode # None THEN handle.returncode
    ELSE IF procs[handle.pid].state = "zombie" THEN <<procs[handle.pid].code>>
    ELSE None

\* poll() of an exited child reaps it: the pid is free again
Reaped(handle) ==
    IF handle.returncode = None /\ procs[handle.pid].state = "zombie"
    THEN [procs EXCEPT ![handle.pid] = FreePid]
    ELSE procs

(* ------------------------- job_manager.py: operations -------------------- *)
\* create_job: open the log for append, spawn the coordinator, record the job in
\* memory and in the index. The caller passes a job_id the table does not hold (the
\* default is a fresh uuid).
create_job(job_id) ==
    \E pid \in Pids :
        /\ job_id \notin DOMAIN jobs
        /\ procs[pid].state = "free"
        /\ logs' = [logs EXCEPT ![job_id].exists = TRUE]
        /\ procs' = [procs EXCEPT ![pid] =
                [state |-> "running", owner |-> job_id, phase |-> "monitor",
                 code |-> 0, child |-> TRUE, term |-> FALSE]]
        /\ jobs' = (job_id :> [proc |-> [held |-> TRUE, pid |-> pid, returncode |-> None],
                               pid |-> <<pid>>]) @@ jobs
        /\ index' = _patch_index(index, job_id,
                [job_id |-> job_id, pid |-> <<pid>>, log_path |-> TRUE,
                 created_at |-> now, status |-> "RUNNING", exit_code |-> None,
                 ended_at |-> None])
        /\ ret' = [op |-> "create", job_id |-> job_id, status |-> "RUNNING",
                   exit_code |-> None, before |-> Get(index, job_id, <<>>)]
        /\ seen_completed' = [seen_completed EXCEPT ![job_id] = FALSE]
        /\ UNCHANGED <<jvars, roundtrip, avars>>

\* what status() returns and the patch it writes to the index (<<>>: none)
StatusOutcome(job_id) ==
    IF job_id \notin DOMAIN jobs
    THEN [status |-> "NOT_FOUND", exit_code |-> None, patch |-> <<>>]
    ELSE LET job == jobs[job_id] IN
        IF job.proc.held
        THEN LET code == poll(job.proc) IN
             IF code = None
             THEN [status |-> "RUNNING", exit_code |-> None, patch |-> <<>>]
             ELSE LET final == IF code = <<0>> THEN "COMPLETED" ELSE "FAILED"
                  IN [status |-> final, exit_code |-> code,
                      patch |-> [status |-> final, exit_code |-> code,
                                 ended_at |-> <<now>>]]
        ELSE IF job.pid # None /\ _pid_alive(job.pid[1])
             THEN [status |-> "RUNNING", exit_code |-> None, patch |-> <<>>]
        ELSE IF _log_indicates_completed(job_id)
             THEN [status |-> "COMPLETED", exit_code |-> <<0>>,
                   patch |-> [status |-> "COMPLETED", exit_code |-> <<0>>,
                              ended_at |-> <<now>>]]
        ELSE [status |-> "FAILED", exit_code |-> None,
              patch |-> [status |-> "FAILED", exit_code |-> None,
                         ended_at |-> <<now>>]]

\* what a call of status(job_id) does, whoever makes it
StatusCall(job_id) ==
    LET out == StatusOutcome(job_id)
        held == job_id \in DOMAIN jobs /\ jobs[job_id].proc.held
    IN /\ ret' = [op |-> "status", job_id |-> job_id, status |-> out.status,
                  exit_code |-> out.exit_code, before |-> Get(index, job_id, <<>>)]
       /\ index' = IF out.patch = <<>> THEN index
                   ELSE _patch_index(index, job_id, out.patch)
       /\ IF held
          THEN /\ procs' = Reaped(jobs[job_id].proc)
               /\ jobs' = [jobs EXCEPT ![job_id].proc.returncode = poll(jobs[job_id].proc)]
          ELSE UNCHANGED <<procs, jobs>>
       /\ seen_completed' =
            [seen_completed EXCEPT ![job_id] = @ \/ out.status = "COMPLETED"]
       /\ UNCHANGED <<jvars, roundtrip, logs>>

\* status(job_id), called for a request
status(job_id) == StatusCall(job_id) /\ UNCHANGED avars

\* the JobManager process is restarted: JobManager() loads the table from the index
\* with no process handle; the exited children of the old process are reaped
_load_from_disk(idx) ==
    [jid \in DOMAIN idx |-> [proc |-> NoHandle, pid |-> Get(idx[jid], "pid", None)]]
Restart ==
    /\ jobs' = IF \A jid \in DOMAIN index : "log_path" \in DOMAIN index[jid]
               THEN _load_from_disk(index)
               ELSE <<>>
    /\ procs' = [p \in Pids |->
            IF procs[p].state = "zombie" THEN FreePid
            ELSE [procs[p] EXCEPT !.child = FALSE]]
    /\ ret' = [NoCall EXCEPT !.op = "restart"]
    /\ UNCHANGED <<jvars, roundtrip, avars, index, logs, seen_completed>>

(* ------------------------- the processes the JobManager watches ---------- *)
\* what the coordinator of a job does, as the JobManager can see it: the lines it
\* writes to the job's log and its exit code (coordinator.py main() and shutdown())
Coordinator(p) == procs[p].state = "running" /\ procs[p].owner \in JobIds

Writes(p, line) ==
    logs' = [logs EXCEPT ![procs[p].owner].lines =
                IF logs[procs[p].owner].exists THEN @ \cup {line} ELSE @]

\* a process that ends stays a zombie while its parent can still poll it
Exits(p, code) ==
    procs' = [procs EXCEPT ![p] =
        IF procs[p].child THEN [@ EXCEPT !.state = "zombie", !.code = code]
        ELSE FreePid]

\* a slot reaches the restart cap: "max restarts hit; leaving it dead"
OsCoordMaxRestarts(p) ==
    /\ Coordinator(p)
    /\ procs[p].phase \in {"monitor", "dead_slot"}
    /\ Writes(p, SentinelMaxRestarts)
    /\ procs' = [procs EXCEPT ![p].phase = "dead_slot"]
    /\ UNCHANGED <<jvars, roundtrip, avars, jobs, index, ret, seen_completed>>

\* a worker ends with an uncaught exception: its traceback goes to the shared log
OsWorkerTraceback(p) ==
    /\ Coordinator(p)
    /\ procs[p].phase \in {"monitor", "dead_slot"}
    /\ Writes(p, SentinelTraceback)
    /\ UNCHANGED <<jvars, roundtrip, avars, jobs, index, procs, ret, seen_completed>>

\* len(workers) == 0: the sentinel line is printed
OsCoordCompleted(p) ==
    /\ Coordinator(p)
    /\ procs[p].phase = "monitor"
    /\ Writes(p, SentinelCompleted)
    /\ procs' = [procs EXCEPT ![p].phase = "finishing"]
    /\ UNCHANGED <<jvars, roundtrip, avars, jobs, index, ret, seen_completed>>

\* main() returns after the sentinel: exit code 0
OsCoordExit(p) ==
    /\ Coordinator(p)
    /\ procs[p].phase = "finishing"
    /\ Exits(p, 0)
    /\ UNCHANGED <<jvars, roundtrip, avars, jobs, index, logs, ret, seen_completed>>

\* SIGINT/SIGTERM: shutdown() prints "[coord] done." and raises SystemExit(0)
OsCoordShutdown(p) ==
    /\ Coordinator(p)
    /\ Exits(p, ShutdownExitCode)
    /\ UNCHANGED <<jvars, roundtrip, avars, jobs, index, logs, ret, seen_completed>>

\* the coordinator is killed, or dies of an exception: a non-zero exit code
OsCoordKilled(p) ==
    /\ Coordinator(p)
    /\ Exits(p, 1)
    /\ UNCHANGED <<jvars, roundtrip, avars, jobs, index, logs, ret, seen_completed>>

\* the operating system gives a free pid to a process that is no coordinator
OsOtherStart(p) ==
    /\ procs[p].state = "free"
    /\ procs' = [procs EXCEPT ![p] = [FreePid EXCEPT !.state = "running", !.owner = "other"]]
    /\ UNCHANGED <<jvars, roundtrip, avars, jobs, index, logs, ret, seen_completed>>

OsOtherExit(p) ==
    /\ procs[p].state = "running"
    /\ procs[p].owner = "other"
    /\ procs' = [procs EXCEPT ![p] = FreePid]
    /\ UNCHANGED <<jvars, roundtrip, avars, jobs, index, logs, ret, seen_completed>>

OsNext ==
    \E p \in Pids :
        \/ OsCoordMaxRestarts(p)
        \/ OsWorkerTraceback(p)
        \/ OsCoordCompleted(p)
        \/ OsCoordExit(p)
        \/ OsCoordShutdown(p)
        \/ OsCoordKilled(p)
        \/ OsOtherStart(p)
        \/ OsOtherExit(p)

JobIdle ==
    /\ env = [WORLD_SIZE |-> 1, CHECKPOINT_EVERY |-> 1, MAX_RESTARTS_PER_WORKER |-> 0]
    /\ dataset = <<>>
    /\ wlive = [r \in Ranks |-> "none"]
    /\ wcode = [r \in Ranks |-> 0]
    /\ wpc = [r \in Ranks |-> "dead"]
    /\ wstate = [r \in Ranks |-> IdleState]
    /\ wmodel = [r \in Ranks |-> <<>>]
    /\ wsi = [r \in Ranks |-> 0]
    /\ wfpos = [r \in Ranks |-> 0]
    /\ tmp = [r \in Ranks |-> <<>>]
    /\ ckpt = [r \in Ranks |-> <<>>]
    /\ latest = [r \in Ranks |-> NoFile]
    /\ wresume = [r \in Ranks |-> IdleState]
    /\ wemit = [r \in Ranks |-> <<>>]
    /\ wcommits = [r \in Ranks |-> <<>>]
    /\ cpc = "idle"
    /\ cidx = 0
    /\ slots = [r \in Ranks |-> [tracked |-> FALSE, restarts |-> 0]]
    /\ unrecorded = {}
    /\ shutting_down = FALSE
    /\ ccode = 0
    /\ starts = [r \in Ranks |-> 0]
    /\ clog = {}

Init ==
    /\ JobIdle
    /\ RoundTripIdle
    /\ ApiIdle
    /\ jobs = <<>>
    /\ index = <<>>
    /\ procs = [p \in Pids |-> FreePid]
    /\ logs = [j \in JobIds |-> NoLog]
    /\ ret = NoCall
    /\ seen_completed = [j \in JobIds |-> FALSE]

Next ==
    \/ \E job_id \in JobIds : create_job(job_id)
    \/ \E job_id \in JobIds : status(job_id)
    \/ Restart
    \/ OsNext

Spec == Init /\ [][Next]_vars

(* ------------------------- C1 ------------------------------------------- *)
\* C1 (as claimed): a status call made while the index entry of the job carries a
\* terminal exit_code returns the status and the exit_code of that entry, also after
\* a restart of the JobManager.
C1_TerminalStatusSticky ==
    (ret.op = "status" /\ Get(ret.before, "exit_code", None) # None) =>
        /\ ret.status = ret.before.status
        /\ ret.exit_code = ret.before.exit_code

(* ------------------------- C2 ------------------------------------------- *)
\* C2 (as claimed): a status call that returns RUNNING is never made after a status
\* call for the same job returned COMPLETED.
C2_NeverRunningAfterCompleted ==
    \A j \in JobIds :
        ~(ret.op = "status" /\ ret.job_id = j /\ ret.status = "RUNNING"
          /\ seen_completed[j])

(* ------------------------- job_manager.py: stop, delete, purge ----------- *)
MaxTime == 1

\* time.time() moves on
Tick ==
    /\ now < MaxTime
    /\ now' = now + 1
    /\ UNCHANGED <<jvars, roundtrip, svars, threads, listing, wprocs, jobs, index, procs, logs, ret, seen_completed,
                   ckdirs, stop_sent, purging>>

\* (variant) the entry is not removed
Pop_keeps(d, key) == d
\* dict.pop(key, None)
Pop(d, key) == [k \in DOMAIN d \ {key} |-> d[k]]

\* psutil.Process(pid).terminate(): SIGTERM is pending for the process with this pid
terminate(ps, pid) == [ps EXCEPT ![pid].term = TRUE]

\* (variant) a job the table does not hold is answered like a failed terminate
StopOutcome_unknown_failed(job_id) ==
    IF job_id \notin DOMAIN jobs THEN "STOP_FAILED"
    ELSE IF jobs[job_id].pid = None THEN "CANNOT_STOP"
    ELSE IF ~_pid_alive(jobs[job_id].pid[1]) THEN "NOT_RUNNING"
    ELSE "STOP_SENT"
\* what stop_job returns
StopOutcome(job_id) ==
    IF job_id \notin DOMAIN jobs THEN "NOT_FOUND"
    ELSE IF jobs[job_id].pid = None THEN "CANNOT_STOP"
    ELSE IF ~_pid_alive(jobs[job_id].pid[1]) THEN "NOT_RUNNING"
    ELSE "STOP_SENT"

\* stop_job(job_id): returns at once, the signal is delivered later
stop_job(job_id) ==
    LET out == StopOutcome(job_id) IN
    /\ ret' = [NoCall EXCEPT !.op = "stop", !.job_id = job_id, !.status = out]
    /\ IF out = "STOP_SENT"
       THEN /\ procs' = terminate(procs, jobs[job_id].pid[1])
            /\ stop_sent' = stop_sent \cup {<<job_id, jobs[job_id].proc.held>>}
       ELSE UNCHANGED <<procs, stop_sent>>
    /\ UNCHANGED <<jvars, roundtrip, svars, threads, listing, wprocs, jobs, index, logs, seen_completed, now, ckdirs,
                   purging>>

\* (variant) a running job is not refused
DeleteOutcome_no_refusal(job_id, stop_first, force) ==
    IF job_id \notin DOMAIN jobs THEN "NOT_FOUND" ELSE "DELETED"
\* what delete_job returns
DeleteOutcome(job_id, stop_first, force) ==
    IF job_id \notin DOMAIN jobs THEN "NOT_FOUND"
    ELSE IF StatusOutcome(job_id).status = "RUNNING" /\ ~force /\ ~stop_first
         THEN "REFUSED_RUNNING"
    ELSE "DELETED"

\* what delete_job does to the table, the index, the processes and the files: the
\* status call, the stop of a running job, the two pops, the unlink and the rmtree.
\* A coordinator whose handle is dropped while it runs is no longer polled by anyone;
\* one whose log is unlinked writes to a file nobody can open.
DeleteEffects(job_id, delete_logs, stop_first, force) ==
    IF DeleteOutcome(job_id, stop_first, force) # "DELETED"
    THEN UNCHANGED <<jobs, index, procs, logs, logbytes, ckdirs, seen_completed,
                     stop_sent>>
    ELSE LET job == jobs[job_id]
             is_running == StatusOutcome(job_id).status = "RUNNING"
             polled == IF job.proc.held THEN Reaped(job.proc) ELSE procs
             stopped == IF is_running /\ (stop_first \/ force)
                        THEN terminate(polled, job.pid[1]) ELSE polled
         IN /\ jobs' = Pop(jobs, job_id)
            /\ index' = Pop(index, job_id)
            /\ procs' = [p \in Pids |->
                  IF stopped[p].state = "running" /\ stopped[p].owner = job_id
                  THEN IF delete_logs
                       THEN [FreePid EXCEPT !.state = "running", !.owner = "other",
                                            !.term = stopped[p].term]
                       ELSE [stopped[p] EXCEPT !.child = FALSE]
                  ELSE stopped[p]]
            /\ logs' = IF delete_logs THEN [logs EXCEPT ![job_id] = NoLog] ELSE logs
            /\ logbytes' = IF delete_logs THEN [logbytes EXCEPT ![job_id] = <<>>]
                           ELSE logbytes
            /\ ckdirs' = IF delete_logs /\ force THEN ckdirs \ {job_id} ELSE ckdirs
            /\ seen_completed' = [seen_completed EXCEPT ![job_id] = FALSE]
            /\ stop_sent' = stop_sent \ ({job_id} \X BOOLEAN)

\* delete_job(job_id, delete_logs, stop_first, force)
delete_job(job_id, delete_logs, stop_first, force) ==
    /\ DeleteEffects(job_id, delete_logs, stop_first, force)
    /\ ret' = [NoCall EXCEPT !.op = "delete", !.job_id = job_id,
                             !.status = DeleteOutcome(job_id, stop_first, force),
                             !.before = Get(index, job_id, <<>>)]
    /\ UNCHANGED <<jvars, roundtrip, orphans, stream, threads, listing, wprocs, now, purging>>

\* the arguments purge is called with
PurgeStatuses == {{}, {"RUNNING"}, {"COMPLETED", "FAILED"}}
PurgeAges == {None, <<1>>}

\* (variant) the status filter asks status() instead of the index
to_delete_live(idx, older_than_seconds, statuses) ==
    { jid \in DOMAIN idx :
        /\ statuses # {} => StatusOutcome(jid).status \in statuses
        /\ older_than_seconds # None =>
              ~(now - Get(idx[jid], "created_at", now) < older_than_seconds[1]) }
\* the loop over the index that builds to_delete
to_delete(idx, older_than_seconds, statuses) ==
    { jid \in DOMAIN idx :
        /\ statuses # {} => Get(idx[jid], "status", "UNKNOWN") \in statuses
        /\ older_than_seconds # None =>
              ~(now - Get(idx[jid], "created_at", now) < older_than_seconds[1]) }

\* purge, up to the end of the first loop. at_call keeps, for the jobs of the table,
\* what status would have returned when purge was called; persisted and created_at
\* keep what the index held then.
purge_begin(older_than_seconds, statuses, delete_logs, stop_running, force) ==
    /\ ~purging.active
    /\ purging' = [active |-> TRUE,
                   older_than_seconds |-> older_than_seconds, statuses |-> statuses,
                   delete_logs |-> delete_logs, stop_running |-> stop_running,
                   force |-> force,
                   matched |-> to_delete(index, older_than_seconds, statuses),
                   todo |-> to_delete(index, older_than_seconds, statuses),
                   deleted |-> {}, deleted_count |-> 0,
                   at_call |-> [j \in DOMAIN jobs |-> StatusOutcome(j).status],
                   persisted |-> [j \in DOMAIN index |-> Get(index[j], "status", "UNKNOWN")],
                   created_at |-> [j \in DOMAIN index |-> Get(index[j], "created_at", now)],
                   called_at |-> now]
    /\ UNCHANGED <<jvars, roundtrip, svars, threads, listing, wprocs, jobs, index, procs, logs, ret, seen_completed,
                   now, ckdirs, stop_sent>>

\* one turn of the second loop: delete_job for the next matched job
purge_delete ==
    /\ purging.active
    /\ \E jid \in purging.todo :
        LET result == DeleteOutcome(jid, purging.stop_running, purging.force) IN
        /\ DeleteEffects(jid, purging.delete_logs, purging.stop_running, purging.force)
        /\ purging' = [purging EXCEPT
                !.todo = @ \ {jid},
                !.deleted = IF result = "DELETED" THEN @ \cup {jid} ELSE @,
                !.deleted_count = IF result \in {"DELETED", "NOT_FOUND"} THEN @ + 1 ELSE @]
    /\ UNCHANGED <<jvars, roundtrip, orphans, stream, threads, listing, wprocs, ret, now>>

\* purge returns {"status": "OK", "deleted": ..., "total_matched": ...}
purge_return ==
    /\ purging.active
    /\ purging.todo = {}
    /\ ret' = [NoCall EXCEPT !.op = "purge", !.status = "OK"] @@
              [deleted |-> purging.deleted_count,
               total_matched |-> Cardinality(purging.matched)]
    /\ purging' = NoPurge
    /\ UNCHANGED <<jvars, roundtrip, svars, threads, listing, wprocs, jobs, index, procs, logs, seen_completed, now,
                   ckdirs, stop_sent>>

(* ------------------------- the processes, as the request layer sees them - *)
\* the pending SIGTERM is delivered: the coordinator's handler ends it with exit code
\* 0; before signal.signal has run (and where terminate() is TerminateProcess) the
\* process is killed; a process that is no coordinator just ends
OsTerm(p) ==
    /\ procs[p].state = "running"
    /\ procs[p].term
    /\ \/ procs[p].owner \in JobIds /\ Exits(p, ShutdownExitCode)
       \/ procs[p].owner \in JobIds /\ Exits(p, 1)
       \/ procs[p].owner = "other" /\ procs' = [procs EXCEPT ![p] = FreePid]
    /\ UNCHANGED <<jvars, roundtrip, avars, jobs, index, logs, ret, seen_completed>>

\* a worker of the job commits its first checkpoint: CHECKPOINT_DIR/<job_id> exists
OsWorkerCheckpoint(p) ==
    /\ Coordinator(p)
    /\ procs[p].phase = "monitor"
    /\ ckdirs' = ckdirs \cup {procs[p].owner}
    /\ UNCHANGED <<jvars, roundtrip, svars, threads, listing, wprocs, jobs, index, procs, logs, ret, seen_completed, now,
                   stop_sent, purging>>

(* ------------------------- the log file and its readers ------------------ *)
MaxLog == 3

\* The log holds UTF-8 text: "a" is a one-byte character, "L" "C" the lead and the
\* continuation byte of a two-byte character. A reader can see the file end between
\* the two.
Bytes == {"a", "L", "C"}
MidCharacter(data) == Len(data) > 0 /\ data[Len(data)] = "L"
NextBytes(data) == IF MidCharacter(data) THEN {"C"} ELSE {"a", "L"}

\* bytes.decode("utf-8", errors="replace"): "?" stands for U+FFFD, "e" for the
\* two-byte character
RECURSIVE decode(_)
decode(data) ==
    IF data = <<>> THEN <<>>
    ELSE IF data[1] = "a" THEN <<"a">> \o decode(Tail(data))
    ELSE IF data[1] = "L" /\ Len(data) > 1 /\ data[2] = "C"
         THEN <<"e">> \o decode(Tail(Tail(data)))
    ELSE <<"?">> \o decode(Tail(data))

\* (variant) the offset is handed back as it came
read_new_log_bytes_keeps_offset(job_id, offset) ==
    IF job_id \notin DOMAIN jobs \/ ~logs[job_id].exists
    THEN [text |-> <<>>, offset |-> offset]
    ELSE [text |-> decode(SubSeq(logbytes[job_id], offset + 1, Len(logbytes[job_id]))),
          offset |-> offset]

\* read_new_log_bytes(job_id, offset): the pair (text, new offset)
read_new_log_bytes(job_id, offset) ==
    IF job_id \notin DOMAIN jobs \/ ~logs[job_id].exists
    THEN [text |-> <<>>, offset |-> offset]
    ELSE LET data == logbytes[job_id] IN
         IF offset >= Len(data) THEN [text |-> <<>>, offset |-> offset]
         ELSE [text |-> decode(SubSeq(data, offset + 1, Len(data))),
               offset |-> Len(data)]

(* ------------------------- job_manager.py: the log reads ----------------- *)
\* tail_logs(job_id): "" for a job the table does not hold or a log that is gone,
\* else the last lines of the log (all of them here)
tail_logs(job_id) ==
    /\ ret' = [NoCall EXCEPT !.op = "tail_logs", !.job_id = job_id] @@
              [text |-> IF job_id \notin DOMAIN jobs \/ ~logs[job_id].exists THEN {}
                        ELSE logs[job_id].lines]
    /\ UNCHANGED <<jvars, roundtrip, avars, jobs, index, procs, logs, seen_completed>>

\* a call of read_new_log_bytes(job_id, offset) for a request
ReadNewLogBytes(job_id, offset) ==
    /\ ret' = [NoCall EXCEPT !.op = "read_new_log_bytes", !.job_id = job_id] @@
              [result |-> read_new_log_bytes(job_id, offset), offset_in |-> offset]
    /\ UNCHANGED <<jvars, roundtrip, avars, jobs, index, procs, logs, seen_completed>>

(* ------------------------- the JobManager with all its operations -------- *)
\* The requests are served one at a time here; the processes and the clock move
\* between the requests and between the deletes of a purge.
ApiOs ==
    \E p \in Pids :
        \/ OsCoordCompleted(p)
        \/ OsCoordExit(p)
        \/ OsCoordShutdown(p)
        \/ OsCoordKilled(p)
        \/ OsOtherStart(p)
        \/ OsOtherExit(p)
        \/ OsTerm(p)
        \/ OsWorkerCheckpoint(p)

\* one job is enough for what is checked of these operations
ApiJobIds == {"job-a"}
ApiRequest ==
    \/ \E job_id \in ApiJobIds : create_job(job_id)
    \/ \E job_id \in ApiJobIds : status(job_id)
    \/ \E job_id \in ApiJobIds : stop_job(job_id)
    \/ \E job_id \in ApiJobIds : \E delete_logs, stop_first, force \in BOOLEAN :
            delete_job(job_id, delete_logs, stop_first, force)
    \/ \E job_id \in ApiJobIds : tail_logs(job_id)
    \/ \E job_id \in ApiJobIds : \E offset \in 0 .. 1 : ReadNewLogBytes(job_id, offset)
    \/ Restart

ApiNext ==
    \/ ApiRequest
    \/ Tick
    \/ ApiOs

SpecApi == Init /\ [][ApiNext]_vars

(* ------------------------- purge over a table of jobs -------------------- *)
\* purge is called with delete_logs at its default (True); the processes move
\* between the deletes of a purge, the clock between the requests.
PurgeOs ==
    \E p \in Pids :
        \/ OsCoordCompleted(p)
        \/ OsCoordExit(p)
        \/ OsCoordKilled(p)
        \/ OsTerm(p)

PurgeNext ==
    \/ ~purging.active /\ \E job_id \in JobIds : create_job(job_id)
    \/ ~purging.active /\ \E job_id \in JobIds : status(job_id)
    \/ \E older \in PurgeAges, statuses \in PurgeStatuses :
       \E delete_logs \in {TRUE}, stop_running, force \in BOOLEAN :
            purge_begin(older, statuses, delete_logs, stop_running, force)
    \/ purge_delete
    \/ purge_return
    \/ ~purging.active /\ Tick
    \/ PurgeOs

SpecPurge == Init /\ [][PurgeNext]_vars

(* ------------------------- C11 ------------------------------------------ *)
Sentinels == {SentinelCompleted, SentinelMaxRestarts, SentinelTraceback}
Held(j) == j \in DOMAIN jobs /\ jobs[j].proc.held
Reattached(j) == j \in DOMAIN jobs /\ ~jobs[j].proc.held
RecordedPidAlive(j) == jobs[j].pid # None /\ _pid_alive(jobs[j].pid[1])

\* no handle, no persisted terminal exit_code, the recorded pid not alive, no sentinel
LostCase(j) ==
    /\ Reattached(j)
    /\ j \in DOMAIN index
    /\ Get(index[j], "exit_code", None) = None
    /\ ~RecordedPidAlive(j)
    /\ logs[j].lines \cap Sentinels = {}

\* C11 (as claimed): a status call in that case returns LOST and leaves the index
\* as it is.
C11_LostNotPersisted ==
    [][\A j \in JobIds : (LostCase(j) /\ status(j)) =>
            (ret'.status = "LOST" /\ index' = index)]_vars

(* ------------------------- C12 ------------------------------------------ *)
\* C12 (as claimed): once the index entry of a job is COMPLETED or FAILED, a status
\* call leaves the entry (status, exit_code, ended_at) unchanged.
C12_TerminalWrittenOnce ==
    [][\A j \in JobIds :
        (/\ j \in DOMAIN index
         /\ Get(index[j], "status", "") \in {"COMPLETED", "FAILED"}
         /\ status(j)) => index'[j] = index[j]]_vars

(* ------------------------- C13 ------------------------------------------ *)
CoordinatorGone(j) == \A p \in Pids : ~(procs[p].state = "running" /\ procs[p].owner = j)
PrintedAndExited(j) ==
    logs[j].exists /\ SentinelCompleted \in logs[j].lines /\ CoordinatorGone(j)
ReturnsRunning == ret'.status = "RUNNING"
ResolvesCompleted(j) ==
    /\ ret'.status = "COMPLETED"
    /\ ret'.exit_code = <<0>>
    /\ index'[j].status = "COMPLETED"
    /\ index'[j].exit_code = <<0>>

\* C13 (as claimed): without a handle, status returns RUNNING while the recorded pid
\* is alive, and once the coordinator has printed the sentinel and exited the next
\* status call returns COMPLETED with exit_code 0 and persists it.
C13_ReattachThenCompleted ==
    [][\A j \in JobIds :
        /\ (Reattached(j) /\ RecordedPidAlive(j) /\ status(j)) => ReturnsRunning
        /\ (Reattached(j) /\ PrintedAndExited(j) /\ status(j)) => ResolvesCompleted(j)
      ]_vars

\* C13 (amended): ... returns COMPLETED with exit_code 0 and persists it, unless
\* another live process holds the recorded pid at that call.
C13_ReattachThenCompletedUnlessPidReused ==
    [][\A j \in JobIds :
        /\ (Reattached(j) /\ RecordedPidAlive(j) /\ status(j)) => ReturnsRunning
        /\ (Reattached(j) /\ PrintedAndExited(j) /\ ~RecordedPidAlive(j) /\ status(j))
                => ResolvesCompleted(j)
      ]_vars

C13_Witness ==
    /\ ret.op = "status"
    /\ ret.status = "COMPLETED"
    /\ Reattached(ret.job_id)
    /\ ret.before.status = "RUNNING"
    /\ index[ret.job_id].status = "COMPLETED"

(* ------------------------- C14 ------------------------------------------ *)
\* C14 (as claimed): after stop_job has returned STOP_SENT for a job with a live
\* handle, once status has returned COMPLETED it returns COMPLETED from then on.
C14_StoppedStaysCompleted ==
    \A j \in JobIds :
        (/\ ret.op = "status"
         /\ ret.job_id = j
         /\ <<j, TRUE>> \in stop_sent
         /\ seen_completed[j]) => ret.status = "COMPLETED"

(* ------------------------- C15 ------------------------------------------ *)
\* C15: delete_job of a RUNNING job with stop_first = false and force = false returns
\* REFUSED_RUNNING and leaves the table, the index, the log, the checkpoint directory
\* and the processes unchanged.
C15_RefusedRunningChangesNothing ==
    [][\A j \in JobIds : \A delete_logs \in BOOLEAN :
        (/\ j \in DOMAIN jobs
         /\ StatusOutcome(j).status = "RUNNING"
         /\ delete_job(j, delete_logs, FALSE, FALSE))
        => /\ ret'.status = "REFUSED_RUNNING"
           /\ UNCHANGED <<jobs, index, logs, ckdirs, procs>>]_vars

C15_Witness ==
    /\ ret.op = "delete"
    /\ ret.status = "REFUSED_RUNNING"
    /\ ret.job_id \in ckdirs
    /\ logs[ret.job_id].exists
    /\ Held(ret.job_id)

(* ------------------------- C16 ------------------------------------------ *)
Absent(j) == j \notin DOMAIN jobs /\ j \notin DOMAIN index

\* C16: after delete_job has returned DELETED the job is in neither the table nor the
\* index; while it is in neither, status returns NOT_FOUND for it, and only create_job
\* (no restart) brings it back.
C16_DeletedStaysDeleted ==
    /\ [](ret.op = "delete" /\ ret.status = "DELETED" => Absent(ret.job_id))
    /\ [][\A j \in JobIds : Absent(j) =>
            /\ status(j) => ret'.status = "NOT_FOUND"
            /\ ~Absent(j)' => create_job(j)]_vars

C16_Witness ==
    /\ ret.op = "status"
    /\ ret.status = "NOT_FOUND"
    /\ logs[ret.job_id].exists
    /\ Absent(ret.job_id)

(* ------------------------- C20 ------------------------------------------ *)
OldEnough(j) ==
    purging.older_than_seconds # None =>
        purging.called_at - purging.created_at[j] >= purging.older_than_seconds[1]

\* C20 (as claimed): with a non-empty status set, purge deletes a job only if the
\* status that status() would have returned for it at the call is in the set and the
\* job is old enough.
C20_PurgeByCurrentStatus ==
    (purging.active /\ purging.statuses # {}) =>
        \A j \in purging.deleted :
            /\ j \in DOMAIN purging.at_call
            /\ purging.at_call[j] \in purging.statuses
            /\ OldEnough(j)

\* C20 (amended): ... only if the status its index entry held at the call is in the
\* set and the job is old enough; the jobs outside the filter stay in the table and
\* the index, and deleted never exceeds total_matched.
C20_PurgeByPersistedStatus ==
    /\ (purging.active /\ purging.statuses # {}) =>
        /\ \A j \in purging.deleted :
              purging.persisted[j] \in purging.statuses /\ OldEnough(j)
        /\ \A j \in DOMAIN purging.persisted :
              (purging.persisted[j] \notin purging.statuses \/ ~OldEnough(j))
                  => j \in DOMAIN index /\ (j \in DOMAIN purging.at_call => j \in DOMAIN jobs)
        /\ purging.deleted_count <= Cardinality(purging.matched)
    /\ ret.op = "purge" => ret.deleted <= ret.total_matched

C20_Witness ==
    /\ purging.active
    /\ purging.statuses # {}
    /\ purging.older_than_seconds # None
    /\ purging.deleted # {}
    /\ \E j \in DOMAIN purging.persisted : j \notin purging.matched /\ j \in DOMAIN jobs

(* ------------------------- create_job with a job_id of the caller -------- *)
\* create_job(job_id=req.job_id): the id is used as it comes, the table and the index
\* are not asked. The log is opened for append, a coordinator is started with JOB_ID =
\* job_id, the table entry is overwritten and with it the handle of a coordinator
\* started before, which nobody polls from then on.
create_job_with_id(job_id) ==
    \E pid \in Pids :
        /\ procs[pid].state = "free"
        /\ logs' = [logs EXCEPT ![job_id].exists = TRUE]
        /\ procs' = [p \in Pids |->
                IF p = pid
                THEN [state |-> "running", owner |-> job_id, phase |-> "spawn",
                      code |-> 0, child |-> TRUE, term |-> FALSE]
                ELSE IF procs[p].owner = job_id /\ procs[p].state = "zombie" THEN FreePid
                ELSE IF procs[p].owner = job_id THEN [procs[p] EXCEPT !.child = FALSE]
                ELSE procs[p]]
        /\ jobs' = [j \in DOMAIN jobs \cup {job_id} |->
                IF j = job_id
                THEN [proc |-> [held |-> TRUE, pid |-> pid, returncode |-> None],
                      pid |-> <<pid>>]
                ELSE jobs[j]]
        /\ index' = _patch_index(index, job_id,
                [job_id |-> job_id, pid |-> <<pid>>, log_path |-> TRUE,
                 created_at |-> now, status |-> "RUNNING", exit_code |-> None,
                 ended_at |-> None])
        /\ ret' = [op |-> "create", job_id |-> job_id, status |-> "RUNNING",
                   exit_code |-> None, before |-> Get(index, job_id, <<>>)]
        /\ seen_completed' = [seen_completed EXCEPT ![job_id] = FALSE]
        /\ UNCHANGED <<jvars, roundtrip, avars>>

WorkersOf(p) == { w \in wprocs : w.ppid = p }

\* the coordinator's spawn loop: start_worker(0) with JOB_ID and RANK in its environment
OsCoordSpawn(p) ==
    /\ Coordinator(p)
    /\ procs[p].phase = "spawn"
    /\ procs' = [procs EXCEPT ![p].phase = "monitor"]
    /\ wprocs' = wprocs \cup {[job_id |-> procs[p].owner, rank |-> 0, ppid |-> p]}
    /\ UNCHANGED <<jvars, roundtrip, jobs, index, logs, ret, seen_completed, now, ckdirs,
                   stop_sent, purging, svars, threads, listing>>

\* a worker process ends
OsWorkerExit(w) ==
    /\ w \in wprocs
    /\ wprocs' = wprocs \ {w}
    /\ UNCHANGED <<jvars, roundtrip, jobs, index, procs, logs, ret, seen_completed, now,
                   ckdirs, stop_sent, purging, svars, threads, listing>>

\* shutdown(): the workers of this coordinator are signalled and killed, exit code 0
OsCoordShutdownStops(p) ==
    /\ Coordinator(p)
    /\ procs[p].phase = "monitor"
    /\ Exits(p, ShutdownExitCode)
    /\ wprocs' = wprocs \ WorkersOf(p)
    /\ UNCHANGED <<jvars, roundtrip, jobs, index, logs, ret, seen_completed, now, ckdirs,
                   stop_sent, purging, svars, threads, listing>>

\* the coordinator is killed: its workers run on without a parent
OsCoordKilledWorkersStay(p) ==
    /\ Coordinator(p)
    /\ Exits(p, 1)
    /\ wprocs' = { IF w.ppid = p THEN [w EXCEPT !.ppid = 0] ELSE w : w \in wprocs }
    /\ UNCHANGED <<jvars, roundtrip, jobs, index, logs, ret, seen_completed, now, ckdirs,
                   stop_sent, purging, svars, threads, listing>>

RecreateNext ==
    \/ \E job_id \in JobIds : create_job_with_id(job_id)
    \/ \E job_id \in JobIds : status(job_id)
    \/ \E p \in Pids :
        \/ OsCoordSpawn(p)
        \/ WorkersOf(p) = {} /\ OsCoordCompleted(p)
        \/ OsCoordExit(p)
        \/ OsCoordShutdownStops(p)
        \/ OsCoordKilledWorkersStay(p)
    \/ \E w \in wprocs : OsWorkerExit(w)

SpecRecreate == Init /\ [][RecreateNext]_vars

(* ------------------------- C28 ------------------------------------------ *)
\* C28 (as claimed): at every moment at most one live worker process exists for a
\* (job_id, rank), also when create_job is called with a job_id that already exists
\* and when a coordinator shuts down or dies.
C28_OneWorkerPerJobAndRank ==
    \A w, v \in wprocs : (w.job_id = v.job_id /\ w.rank = v.rank) => w = v

(* ------------------------- C21 ------------------------------------------ *)
Unknown(j) == j \notin DOMAIN jobs

\* C21: status, stop_job and delete_job called with a job_id the table does not hold
\* return NOT_FOUND, tail_logs returns "" and read_new_log_bytes returns ("", offset),
\* and each of them leaves the index and the table as they are.
C21_UnknownJobChangesNothing ==
    [][\A j \in JobIds : Unknown(j) =>
        /\ status(j) => (ret'.status = "NOT_FOUND" /\ UNCHANGED <<jobs, index>>)
        /\ stop_job(j) => (ret'.status = "NOT_FOUND" /\ UNCHANGED <<jobs, index>>)
        /\ \A delete_logs, stop_first, force \in BOOLEAN :
              delete_job(j, delete_logs, stop_first, force) =>
                  (ret'.status = "NOT_FOUND" /\ UNCHANGED <<jobs, index, logs, ckdirs>>)
        /\ tail_logs(j) => (ret'.text = {} /\ UNCHANGED <<jobs, index>>)
        /\ \A offset \in 0 .. 1 :
              ReadNewLogBytes(j, offset) =>
                  /\ ret'.result = [text |-> <<>>, offset |-> offset]
                  /\ UNCHANGED <<jobs, index>>
      ]_vars

\* a log read for a job that was deleted with its log kept
C21_Witness ==
    /\ ret.op = "tail_logs"
    /\ Unknown(ret.job_id)
    /\ logs[ret.job_id].exists
    /\ logs[ret.job_id].lines # {}
    /\ ret.text = {}

(* ------------------------- C23 ------------------------------------------ *)
\* the coordinator behind the handle of job j has not exited; the code it exited with
HandleRunning(j) ==
    jobs[j].proc.returncode = None /\ procs[jobs[j].proc.pid].state = "running"
HandleExitCode(j) ==
    IF jobs[j].proc.returncode # None THEN jobs[j].proc.returncode[1]
    ELSE procs[jobs[j].proc.pid].code

\* C23: with a handle for the job, status returns RUNNING iff the coordinator has not
\* exited; otherwise it returns COMPLETED iff the exit code is 0 and FAILED for any
\* other code, and the index holds that status and exit code after the call, whatever
\* the log contains.
C23_HandleDecidesStatus ==
    [][\A j \in JobIds : (Held(j) /\ status(j)) =>
        /\ ret'.status \in {"RUNNING", "COMPLETED", "FAILED"}
        /\ ret'.status = "RUNNING" <=> HandleRunning(j)
        /\ ret'.status = "COMPLETED" <=> (~HandleRunning(j) /\ HandleExitCode(j) = 0)
        /\ ~HandleRunning(j) =>
              /\ ret'.exit_code = <<HandleExitCode(j)>>
              /\ j \in DOMAIN index'
              /\ index'[j].status = ret'.status
              /\ index'[j].exit_code = <<HandleExitCode(j)>>
        /\ HandleRunning(j) => index' = index
      ]_vars

\* FAILED from the exit code although the log holds the completion sentinel, and
\* COMPLETED from the exit code beside a log that holds a failure sentinel
C23_Witness ==
    /\ ret.op = "status"
    /\ Held(ret.job_id)
    /\ \/ /\ ret.status = "FAILED"
          /\ SentinelCompleted \in logs[ret.job_id].lines
          /\ index[ret.job_id].status = "FAILED"
       \/ /\ ret.status = "COMPLETED"
          /\ SentinelTraceback \in logs[ret.job_id].lines
          /\ index[ret.job_id].status = "COMPLETED"

(* ------------------------- C24 ------------------------------------------ *)
\* no handle, the recorded pid not alive, no completion sentinel in the log but
\* "max restarts hit" or a traceback
FailureInLog(j) ==
    /\ Reattached(j)
    /\ ~RecordedPidAlive(j)
    /\ logs[j].exists
    /\ SentinelCompleted \notin logs[j].lines
    /\ logs[j].lines \cap {SentinelMaxRestarts, SentinelTraceback} # {}

\* C24 (as claimed): a status call in that case returns FAILED and persists FAILED
\* with exit_code 1 in the index.
C24_FailureSentinelPersistsExitCode1 ==
    [][\A j \in JobIds : (FailureInLog(j) /\ status(j)) =>
        /\ ret'.status = "FAILED"
        /\ j \in DOMAIN index'
        /\ index'[j].status = "FAILED"
        /\ index'[j].exit_code = <<1>>
      ]_vars

(* ------------------------- main.py: stream_logs -------------------------- *)
\* (variant) every status ends the stream
StreamEnds_any(st) == TRUE

\* the statuses on which event_gen leaves its loop
StreamEnds(st) == st \in {"COMPLETED", "FAILED", "LOST"}

\* GET /jobs/{job_id}/logs/stream: the status call; 404 for an unknown job
stream_logs(job_id) ==
    /\ stream.pc = "closed"
    /\ StatusCall(job_id)
    /\ stream' = IF StatusOutcome(job_id).status = "NOT_FOUND" THEN stream
                 ELSE [NoStream EXCEPT !.pc = "read", !.job_id = job_id]
    /\ UNCHANGED <<now, ckdirs, stop_sent, purging, threads, listing, wprocs, logbytes, orphans>>

\* event_gen: chunk, offset = read_new_log_bytes(job_id, offset); the chunk is sent
StreamRead ==
    /\ stream.pc = "read"
    /\ LET r == read_new_log_bytes(stream.job_id, stream.offset) IN
       stream' = [stream EXCEPT !.pc = "status", !.offset = r.offset,
                                !.chunks = @ \o r.text]
    /\ UNCHANGED <<jvars, roundtrip, jobs, index, procs, logs, ret, seen_completed,
                   now, ckdirs, stop_sent, purging, threads, listing, wprocs, logbytes, orphans>>

\* event_gen: st = status(job_id); on a final status go to the final flush, else sleep
StreamStatus ==
    /\ stream.pc = "status"
    /\ StatusCall(stream.job_id)
    /\ LET st == StatusOutcome(stream.job_id).status IN
       stream' = [stream EXCEPT !.pc = IF StreamEnds(st) THEN "flush" ELSE "read",
                                !.st = st]
    /\ UNCHANGED <<now, ckdirs, stop_sent, purging, threads, listing, wprocs, logbytes, orphans>>

\* event_gen: the final flush, one more read whose chunk is sent, then break
StreamFlush ==
    /\ stream.pc = "flush"
    /\ LET r == read_new_log_bytes(stream.job_id, stream.offset) IN
       stream' = [stream EXCEPT !.pc = "done", !.offset = r.offset,
                                !.chunks = @ \o r.text, !.final_chunk = r.text,
                                !.final_len = Len(logbytes[stream.job_id])]
    /\ UNCHANGED <<jvars, roundtrip, jobs, index, procs, logs, ret, seen_completed,
                   now, ckdirs, stop_sent, purging, threads, listing, wprocs, logbytes, orphans>>

(* ------------------------- the writers of the log ------------------------ *)
Appends(j, b) == logbytes' = [logbytes EXCEPT ![j] = Append(@, b)]

\* the coordinator or one of its workers writes to the inherited descriptor
OsAppend(p) ==
    /\ Coordinator(p)
    /\ logs[procs[p].owner].exists
    /\ Len(logbytes[procs[p].owner]) < MaxLog
    /\ \E b \in NextBytes(logbytes[procs[p].owner]) : Appends(procs[p].owner, b)
    /\ UNCHANGED <<jvars, roundtrip, jobs, index, procs, logs, ret, seen_completed,
                   now, ckdirs, stop_sent, purging, threads, listing, wprocs, orphans, stream>>

\* len(workers) == 0: the sentinel line is printed, its bytes reach the file
OsCoordPrintsCompleted(p) ==
    /\ Coordinator(p)
    /\ procs[p].phase = "monitor"
    /\ ~MidCharacter(logbytes[procs[p].owner])
    /\ Writes(p, SentinelCompleted)
    /\ Appends(procs[p].owner, "a")
    /\ procs' = [procs EXCEPT ![p].phase = "finishing"]
    /\ UNCHANGED <<jvars, roundtrip, jobs, index, ret, seen_completed,
                   now, ckdirs, stop_sent, purging, threads, listing, wprocs, orphans, stream>>

\* the coordinator is killed before it can stop its workers: they run on
OsCoordKilledOrphans(p) ==
    /\ Coordinator(p)
    /\ procs[p].phase = "monitor"
    /\ Exits(p, 1)
    /\ orphans' = orphans \cup {procs[p].owner}
    /\ UNCHANGED <<jvars, roundtrip, jobs, index, logs, ret, seen_completed,
                   now, ckdirs, stop_sent, purging, threads, listing, wprocs, logbytes, stream>>

\* a worker without coordinator prints a step line
OsOrphanAppend(j) ==
    /\ j \in orphans
    /\ logs[j].exists
    /\ Len(logbytes[j]) < MaxLog
    /\ \E b \in NextBytes(logbytes[j]) : Appends(j, b)
    /\ UNCHANGED <<jvars, roundtrip, jobs, index, procs, logs, ret, seen_completed,
                   now, ckdirs, stop_sent, purging, threads, listing, wprocs, orphans, stream>>

\* the last worker without coordinator ends
OsOrphansEnd(j) ==
    /\ j \in orphans
    /\ orphans' = orphans \ {j}
    /\ UNCHANGED <<jvars, roundtrip, jobs, index, procs, logs, ret, seen_completed,
                   now, ckdirs, stop_sent, purging, threads, listing, wprocs, logbytes, stream>>

StreamOs ==
    \/ \E p \in Pids :
        \/ OsAppend(p)
        \/ OsCoordPrintsCompleted(p)
        \/ OsCoordExit(p)
        \/ OsCoordShutdown(p)
        \/ OsCoordKilledOrphans(p)
    \/ \E j \in JobIds :
        \/ OsOrphanAppend(j)
        \/ OsOrphansEnd(j)

StreamNext ==
    \/ \E job_id \in ApiJobIds : create_job(job_id)
    \/ \E job_id \in ApiJobIds : stream_logs(job_id)
    \/ StreamRead
    \/ StreamStatus
    \/ StreamFlush
    \/ StreamOs

SpecStream == Init /\ [][StreamNext]_vars

(* ------------------------- C18 ------------------------------------------ *)
Streaming == stream.pc # "closed"
FileUpTo(j, n) == SubSeq(logbytes[j], 1, n)

\* C18 (as claimed): for a reader that starts at offset 0 and feeds each returned
\* offset into its next call, the chunks returned so far, concatenated, are the
\* content of the file up to the last returned offset; a call with an offset at or
\* beyond the end of the file returns ("", offset).
C18_ChunksAreTheFile ==
    /\ Streaming => stream.chunks = decode(FileUpTo(stream.job_id, stream.offset))
    /\ \A j \in JobIds : \A offset \in 0 .. (MaxLog + 1) :
          offset >= Len(logbytes[j]) =>
              read_new_log_bytes(j, offset) = [text |-> <<>>, offset |-> offset]

(* ------------------------- C19 ------------------------------------------ *)
\* C19 (as claimed): the stream ends only after status has returned COMPLETED, FAILED
\* or LOST and a final read after it has returned no new bytes.
C19_EndsAfterEmptyDrain ==
    stream.pc = "done" =>
        /\ stream.st \in {"COMPLETED", "FAILED", "LOST"}
        /\ stream.final_chunk = <<>>

\* C19 (amended): the stream ends only after status has returned COMPLETED, FAILED or
\* LOST and one final read after it, whose bytes are sent: the offset then covers
\* every byte the log held at that read.
C19_EndsAfterFinalRead ==
    stream.pc = "done" =>
        /\ stream.st \in {"COMPLETED", "FAILED", "LOST"}
        /\ stream.offset = stream.final_len
        /\ Len(stream.chunks) >= Len(stream.final_chunk)

C19_Witness ==
    /\ stream.pc = "done"
    /\ stream.final_chunk # <<>>
    /\ Len(stream.chunks) > Len(stream.final_chunk)

(* ------------------------- requests served by concurrent threads --------- *)
\* The request layer runs its handlers on a pool of threads and JobManager takes no
\* lock: the steps of _patch_index and of delete_job's index update interleave.
\* _write_index is Path.write_text: the file is opened (and so truncated), then
\* written. An empty file makes _read_index return {"jobs": {}}.
AllIdle == \A t \in Threads : threads[t].pc = "idle"
Quiescent == \A t \in Threads : threads[t].pc \in {"idle", "done"}
Frame == UNCHANGED <<jvars, roundtrip, ret, seen_completed, now, ckdirs, stop_sent,
                     purging, svars, listing, wprocs>>

\* create_job up to the call of _patch_index: the process, the log, self.jobs[jid]
ThreadCreate(t, job_id) ==
    /\ threads[t].pc = "idle"
    /\ job_id \notin DOMAIN jobs
    /\ \E pid \in Pids :
        /\ procs[pid].state = "free"
        /\ logs' = [logs EXCEPT ![job_id].exists = TRUE]
        /\ procs' = [procs EXCEPT ![pid] =
                [state |-> "running", owner |-> job_id, phase |-> "monitor",
                 code |-> 0, child |-> TRUE, term |-> FALSE]]
        /\ jobs' = (job_id :> [proc |-> [held |-> TRUE, pid |-> pid, returncode |-> None],
                               pid |-> <<pid>>]) @@ jobs
        /\ threads' = [threads EXCEPT ![t] = [NoThread EXCEPT
                !.pc = "read", !.op = "create", !.job_id = job_id, !.out = "RUNNING",
                !.patch = [job_id |-> job_id, pid |-> <<pid>>, log_path |-> TRUE,
                           created_at |-> now, status |-> "RUNNING",
                           exit_code |-> None, ended_at |-> None]]]
    /\ UNCHANGED index
    /\ Frame

\* status up to the call of _patch_index (none for RUNNING)
ThreadStatus(t, job_id) ==
    LET out == StatusOutcome(job_id) IN
    /\ threads[t].pc = "idle"
    /\ job_id \in DOMAIN jobs
    /\ IF jobs[job_id].proc.held
       THEN /\ procs' = Reaped(jobs[job_id].proc)
            /\ jobs' = [jobs EXCEPT ![job_id].proc.returncode = poll(jobs[job_id].proc)]
       ELSE UNCHANGED <<procs, jobs>>
    /\ threads' = [threads EXCEPT ![t] = [NoThread EXCEPT
            !.pc = IF out.patch = <<>> THEN "done" ELSE "read",
            !.op = "status", !.job_id = job_id, !.out = out.status,
            !.patch = out.patch]]
    /\ UNCHANGED <<index, logs>>
    /\ Frame

\* delete_job of a job that is not running, up to the _read_index of line 327: the
\* status call with its patch, self.jobs.pop
ThreadDelete(t, job_id) ==
    LET out == StatusOutcome(job_id) IN
    /\ threads[t].pc = "idle"
    /\ job_id \in DOMAIN jobs
    /\ out.status # "RUNNING"
    /\ procs' = IF jobs[job_id].proc.held THEN Reaped(jobs[job_id].proc) ELSE procs
    /\ index' = IF out.patch = <<>> THEN index ELSE _patch_index(index, job_id, out.patch)
    /\ jobs' = Pop(jobs, job_id)
    /\ threads' = [threads EXCEPT ![t] = [NoThread EXCEPT
            !.pc = "read", !.op = "delete", !.job_id = job_id, !.out = "DELETED"]]
    /\ UNCHANGED logs
    /\ Frame

\* idx = _read_index() and the change made to the copy
ThreadRead(t) ==
    /\ threads[t].pc = "read"
    /\ LET th == threads[t]
           torn == \E u \in Threads \ {t} : threads[u].pc = "write"
       IN threads' = [threads EXCEPT ![t] =
            IF th.op = "delete"
            THEN [th EXCEPT !.pc = IF th.job_id \in DOMAIN index THEN "open" ELSE "done",
                            !.idx = Pop(index, th.job_id), !.torn = torn]
            ELSE [th EXCEPT !.pc = "open", !.torn = torn,
                            !.idx = _patch_index(index, th.job_id, th.patch)]]
    /\ UNCHANGED <<jobs, index, procs, logs>>
    /\ Frame

\* _write_index: open(INDEX_PATH, "w") truncates the file
ThreadOpen(t) ==
    /\ threads[t].pc = "open"
    /\ index' = <<>>
    /\ threads' = [threads EXCEPT ![t].pc = "write"]
    /\ UNCHANGED <<jobs, procs, logs>>
    /\ Frame

\* _write_index: the serialized copy is written, the call returns
ThreadWrite(t) ==
    /\ threads[t].pc = "write"
    /\ index' = threads[t].idx
    /\ threads' = [threads EXCEPT ![t].pc = "done"]
    /\ UNCHANGED <<jobs, procs, logs>>
    /\ Frame

ConcurrentNext ==
    \/ AllIdle /\ \E job_id \in JobIds : create_job(job_id)
    \/ \E t \in Threads, job_id \in JobIds : ThreadCreate(t, job_id)
    \/ \E t \in Threads, job_id \in JobIds : ThreadStatus(t, job_id)
    \/ \E t \in Threads, job_id \in JobIds : ThreadDelete(t, job_id)
    \/ \E t \in Threads : ThreadRead(t)
    \/ \E t \in Threads : ThreadOpen(t)
    \/ \E t \in Threads : ThreadWrite(t)
    \/ \E p \in Pids : OsCoordShutdown(p)
    \/ \E p \in Pids : OsCoordKilled(p)

SpecConcurrent == Init /\ [][ConcurrentNext]_vars

\* what the requests of the threads leave behind, whatever order they are taken in
DeletedBy(job_id) == \E u \in Threads : threads[u].op = "delete" /\ threads[u].job_id = job_id
CreatedBy(job_id) == \E u \in Threads : threads[u].op = "create" /\ threads[u].job_id = job_id
SawTornIndex == \E t \in Threads : threads[t].torn

\* C17: JobManager operations are linearizable: once concurrent create, terminal
\* status and delete requests have all returned, no create is lost (the job is in the
\* index and in the table), no persisted terminal status is lost (the index holds it),
\* a deleted job is gone, and no reader of the index ever saw a partially written file.
C17_Linearizable ==
    /\ ~SawTornIndex
    /\ Quiescent =>
        \A t \in Threads :
            LET th == threads[t] IN
            /\ (th.op = "create" /\ ~DeletedBy(th.job_id)) =>
                    /\ th.job_id \in DOMAIN index
                    /\ th.job_id \in DOMAIN jobs
                    /\ index[th.job_id].log_path = TRUE
            /\ (th.op = "status" /\ th.patch # <<>> /\ ~DeletedBy(th.job_id)) =>
                    /\ th.job_id \in DOMAIN index
                    /\ index[th.job_id].status = th.out
            /\ (th.op = "delete" /\ ~CreatedBy(th.job_id)) =>
                    /\ th.job_id \notin DOMAIN index
                    /\ th.job_id \notin DOMAIN jobs

(* ------------------------- C30 ------------------------------------------ *)
\* the entries _load_from_disk can build a Job from: Path(meta["log_path"])
Loadable(idx) == \A jid \in DOMAIN idx : "log_path" \in DOMAIN idx[jid]
StatusMeetsDelete ==
    \E t, u \in Threads :
        /\ threads[t].op = "status"
        /\ threads[u].op = "delete"
        /\ threads[t].job_id = threads[u].job_id

\* C30 (as claimed): after a status call and a delete of the same job have both
\* returned, in whatever order their steps were taken, every entry of the index
\* carries a log_path: the deleted job is not back as a partial entry and
\* _load_from_disk succeeds. (No reader saw a truncated file: the steps of the two
\* calls interleave only between a _read_index and a _write_index.)
C30_StatusAndDeleteLeaveLoadableIndex ==
    (Quiescent /\ StatusMeetsDelete /\ ~SawTornIndex) => Loadable(index)

(* ------------------------- a stream and a delete of its job -------------- *)
\* DELETE /jobs/{job_id} is served on a pool thread while event_gen runs on the event
\* loop: the delete falls between two steps of the stream. The requests taken here:
\* jobs are created before the stream is opened, and deleted while it is open.
StreamDeleteNext ==
    \/ stream.pc = "closed" /\ \E job_id \in ApiJobIds : create_job(job_id)
    \/ \E job_id \in ApiJobIds : stream_logs(job_id)
    \/ StreamRead
    \/ StreamStatus
    \/ StreamFlush
    \/ stream.pc # "closed" /\ \E job_id \in ApiJobIds :
            \E delete_logs, stop_first, force \in BOOLEAN :
                delete_job(job_id, delete_logs, stop_first, force)
    \/ StreamOs

\* the event loop runs event_gen on after every asyncio.sleep(0.25) and after every
\* chunk the client has taken
StreamFairness ==
    /\ WF_vars(StreamRead)
    /\ WF_vars(StreamStatus)
    /\ WF_vars(StreamFlush)

SpecStreamDelete == Init /\ [][StreamDeleteNext]_vars /\ StreamFairness

(* ------------------------- C33 ------------------------------------------ *)
StreamJobDeleted == stream.pc # "closed" /\ stream.job_id \notin DOMAIN jobs

\* C33 (as claimed): a log stream that was opened for a job terminates also when the
\* job is deleted while the stream is open and stays deleted, so that every later
\* status call of the stream returns NOT_FOUND.
C33_StreamOfDeletedJobTerminates == (<>[]StreamJobDeleted) => <>(stream.pc = "done")

(* ------------------------- job_manager.py: list_jobs, cleanup_jobs ------- *)
\* list_jobs: status(jid) for every key of the table. The calls concern different
\* processes and different index entries, so their effects are taken together.
list_jobs ==
    LET outs == [j \in DOMAIN jobs |-> StatusOutcome(j)]
        patched == { j \in DOMAIN jobs : outs[j].patch # <<>> }
    IN /\ ret' = [NoCall EXCEPT !.op = "list"] @@
                 [statuses |-> [j \in DOMAIN jobs |-> outs[j].status]]
       /\ index' = [j \in DOMAIN index \cup patched |->
                        IF j \in patched THEN _patch_index(index, j, outs[j].patch)[j]
                        ELSE index[j]]
       /\ procs' = [p \in Pids |->
                        IF \E j \in DOMAIN jobs :
                              jobs[j].proc.held /\ Reaped(jobs[j].proc)[p] # procs[p]
                        THEN FreePid ELSE procs[p]]
       /\ jobs' = [j \in DOMAIN jobs |->
                        IF jobs[j].proc.held
                        THEN [jobs[j] EXCEPT !.proc.returncode = poll(jobs[j].proc)]
                        ELSE jobs[j]]
       /\ seen_completed' = [j \in JobIds |->
                        seen_completed[j] \/ (j \in DOMAIN jobs /\ outs[j].status = "COMPLETED")]
       /\ UNCHANGED <<jvars, roundtrip, logs, avars>>

\* items[: max(0, keep_last)] of the entries sorted by created_at, newest first: the
\* sets of job ids that can be kept. Entries of one created_at stay in the order of
\* the file, which is not kept here: any of them may come first.
KeepSets(idx, keep_last) ==
    LET n == Min(Max(0, keep_last), Cardinality(DOMAIN idx))
        created(j) == Get(idx[j], "created_at", 0)
    IN { K \in SUBSET DOMAIN idx :
            /\ Cardinality(K) = n
            /\ \A k \in K, r \in DOMAIN idx \ K : created(k) >= created(r) }

\* (variant) the table is not trimmed
TrimmedTable_untrimmed(tbl, removed_ids) == tbl
\* for jid in removed_ids: self.jobs.pop(jid, None)
TrimmedTable(tbl, removed_ids) == [j \in DOMAIN tbl \ removed_ids |-> tbl[j]]

\* cleanup_jobs(keep_last, delete_logs): the index is cut to the newest keep_last
\* entries, the logs of the others are unlinked when asked, the table is trimmed. The
\* handle of a removed job goes with its table entry.
cleanup_jobs(keep_last, delete_logs) ==
    \E keep \in KeepSets(index, keep_last) :
        LET removed_ids == DOMAIN index \ keep
            unlinked == IF delete_logs
                        THEN { j \in removed_ids : "log_path" \in DOMAIN index[j] }
                        ELSE {}
        IN /\ index' = [j \in keep |-> index[j]]
           /\ jobs' = TrimmedTable(jobs, removed_ids)
           /\ logs' = [j \in JobIds |-> IF j \in unlinked THEN NoLog ELSE logs[j]]
           /\ logbytes' = [j \in JobIds |-> IF j \in unlinked THEN <<>> ELSE logbytes[j]]
           /\ procs' = [p \in Pids |->
                  IF procs[p].owner \notin removed_ids \cap DOMAIN jobs THEN procs[p]
                  ELSE IF procs[p].state = "zombie" THEN FreePid
                  ELSE IF procs[p].owner \in unlinked
                       THEN [FreePid EXCEPT !.state = "running", !.owner = "other",
                                            !.term = procs[p].term]
                  ELSE [procs[p] EXCEPT !.child = FALSE]]
           /\ seen_completed' = [j \in JobIds |-> seen_completed[j] /\ j \notin removed_ids]
           /\ stop_sent' = stop_sent \ (removed_ids \X BOOLEAN)
           /\ ret' = [NoCall EXCEPT !.op = "cleanup", !.status = "OK"] @@
                     [kept |-> Cardinality(keep), removed_job_ids |-> removed_ids]
           /\ UNCHANGED <<jvars, roundtrip, orphans, stream, threads, listing, wprocs,
                          now, ckdirs, purging>>

(* ------------------------- the table and the index ----------------------- *)
\* every operation of the JobManager, one request at a time, for one job id; the
\* processes move between the requests. purge is called with delete_logs at its
\* default and without an age filter.
TableOs ==
    \E p \in Pids :
        \/ OsCoordSpawn(p)
        \/ OsCoordCompleted(p)
        \/ OsCoordExit(p)
        \/ OsCoordKilled(p)
        \/ OsTerm(p)

KeepLasts == {0, 1}
TableNext ==
    \/ ~purging.active /\ \E job_id \in ApiJobIds : create_job_with_id(job_id)
    \/ ~purging.active /\ \E job_id \in ApiJobIds : status(job_id)
    \/ ~purging.active /\ list_jobs
    \/ ~purging.active /\ \E job_id \in ApiJobIds : stop_job(job_id)
    \/ ~purging.active /\ \E job_id \in ApiJobIds :
            \E delete_logs, stop_first, force \in BOOLEAN :
                delete_job(job_id, delete_logs, stop_first, force)
    \/ \E older \in {None}, statuses \in PurgeStatuses :
       \E delete_logs \in {TRUE}, stop_running \in {FALSE}, force \in BOOLEAN :
            purge_begin(older, statuses, delete_logs, stop_running, force)
    \/ purge_delete
    \/ purge_return
    \/ ~purging.active /\ \E keep_last \in KeepLasts, delete_logs \in BOOLEAN :
            cleanup_jobs(keep_last, delete_logs)
    \/ ~purging.active /\ Restart
    \/ ~purging.active /\ TableOs

SpecTable == Init /\ [][TableNext]_vars

(* ------------------------- C31 ------------------------------------------ *)
\* C31: when no operation of the JobManager is under way (create, status, list, stop,
\* delete, purge, cleanup_jobs and the restart each run to completion), the job ids
\* of the in-memory table are the job ids of the index file.
C31_TableMatchesIndex == ~purging.active => DOMAIN jobs = DOMAIN index

C31_Witness ==
    /\ ret.op = "cleanup"
    /\ ret.removed_job_ids # {}
    /\ DOMAIN jobs = {}
    /\ DOMAIN index = {}
====
